---- MODULE Spec2Model ----
(***************************************************************************)
(* State-machine model of the history-keeping Store of results-js          *)
(* (src/src/__core/store.ts) together with the Action, Ledger, Result,     *)
(* Issue and invoke code it calls.  Every asynchronous handler is cut at   *)
(* its await points: one action per synchronous segment.                   *)
(***************************************************************************)
EXTENDS Integers, Sequences, FiniteSets, TLC

(* ------------------------------ bounds --------------------------------- *)
MaxOps == 3          \* calls submitted to one container
MaxNow == 2          \* clock ticks (one tick = one hour)
MaxSize == 2         \* largest maxHistorySize the constructor is given
MaxInterval == 2     \* largest digestInterval the constructor is given
NumSlots == 1        \* calls that may be in flight
MaxLog == 2          \* library calls recorded in one behaviour
MaxCalls == 4        \* calls of Action and Ledger in one behaviour
MaxActions == 3      \* Action objects made in one behaviour
MaxObservers == 3    \* observers registered with one Store
MaxHookCalls == 3    \* calls of Hooks.register, unregister, clear and clearAll
MaxHooks == 2        \* functions registered while a lightweight Store runs
MaxMiddlewares == 2  \* middleware functions registered with one Store

Slots == 1..NumSlots

(* --------------------------- the environment --------------------------- *)
\* Names of the operations the caller creates; the executable is a function
\* of the name (Ledger keys executables by name).
ActionNames == {"TEST_ACTION", "SET_VALUE", "FAIL_ACTION", "BAD_TRANSFORM",
                "NULL_TRANSFORM"}

GenericName == "GENERIC_ERROR_ACTION"

InitialState == [value |-> 0]

\* JavaScript null as the value of Result.nextState
NullState == [null |-> 0]

\* JavaScript null as the content of a Result: the empty tuple; a produced
\* content c is <<c>>
NullContent == << >>

VARIABLES
    state,               \* Store._state
    currentActionIndex,  \* Store._currentActionIndex
    actionCounter,       \* Store._actionCounter
    history,             \* Store._history: sequence of [name, ts]
    sharedWith,          \* id of the local digest whose history array IS _history (0: none)
    digests,             \* Store._digests: sequence of [id, state, history]
    maxHistorySize,      \* Store._maxHistorySize
    maxHistoryTime,      \* Store._maxHistoryTime (hours)
    digestInterval,      \* Store._digestInterval
    ledger,              \* Ledger.registry: the registered names
    external,            \* digests the caller's persist callback has stored
    now,                 \* Date.now() (hours)
    nextId,              \* the next uuid()
    calls,               \* the call of each slot: its position and locals
    nOps,                \* calls submitted so far
    created,             \* per digest id: the state and history at creation
    persistCalls,        \* invocations of a persist callback so far
    successes,           \* calls that returned a Result since the last digest or hydrate
    persistFailed,       \* some persist callback has failed
    registry,            \* Ledger.registry of the id-keyed variant: key -> executable
    actions,             \* the Action objects made so far, in order of creation
    log,                 \* the library calls made so far, with what they returned
    subscribers,         \* Store._subscribers, in order of registration
    middlewares,         \* Store._middlewares, in order of registration
    hooks,               \* Hooks.hooks: event -> the functions registered, in order
    invocation,          \* the Hooks.invoke in flight: its promises and its position
    lite                 \* the lightweight Store: its _state and its _mode

vars == <<state, currentActionIndex, actionCounter, history, sharedWith,
          digests, maxHistorySize, maxHistoryTime, digestInterval, ledger,
          external, now, nextId, calls, nOps, created, persistCalls,
          successes, persistFailed, registry, actions, log, subscribers, middlewares,
          hooks, invocation, lite>>

storeVars == <<state, currentActionIndex, actionCounter, history, sharedWith, digests>>
configVars == <<maxHistorySize, maxHistoryTime, digestInterval>>
libVars == <<registry, actions, log>>
hookSide == <<hooks, invocation, lite>>

(* ------------------------------ helpers -------------------------------- *)
\* { ...a } with no key of b, then every key of b
SpreadReplacing(a, b) == b

\* { ...a, ...b }
Spread(a, b) ==
    [k \in (DOMAIN a) \cup (DOMAIN b) |-> IF k \in DOMAIN b THEN b[k] ELSE a[k]]

Names(h) == [k \in 1..Len(h) |-> h[k].name]

RECURSIVE Filter(_, _, _)
\* Array.prototype.filter with the predicate of manageHistoryByTime
Filter(h, t, maxAge) ==
    IF h = << >> THEN << >>
    ELSE IF t - Head(h).ts <= maxAge
         THEN <<Head(h)>> \o Filter(Tail(h), t, maxAge)
         ELSE Filter(Tail(h), t, maxAge)

RECURSIVE ShiftLate(_, _)
\* while (length > max + 1) shift()
ShiftLate(h, max) == IF Len(h) > max + 1 THEN ShiftLate(Tail(h), max) ELSE h

RECURSIVE Shift(_, _)
\* while (length > max) shift()
Shift(h, max) == IF Len(h) > max THEN Shift(Tail(h), max) ELSE h

(* ------------------------- Action, Effect, invoke ---------------------- *)
\* new Action(name, params, exec): the timestamp is the creation time
NewAction(name, t) == [name |-> name, ts |-> t]

\* Action.fromJSON: a new Action with the same name and a fresh timestamp
ActionFromJSON(json, t) == NewAction(json.name, t)

\* Action.toJSON
ActionToJSON(a) == [name |-> a.name, ts |-> a.ts]

\* What the executable registered under a name does with (state, params)
Execute(name, s) ==
    CASE name = "TEST_ACTION"    -> [kind |-> "effect", content |-> 3, transform |-> "count"]
      [] name = "SET_VALUE"      -> [kind |-> "effect", content |-> 1, transform |-> "value"]
      [] name = "BAD_TRANSFORM"  -> [kind |-> "effect", content |-> 2, transform |-> "throws"]
      [] name = "NULL_TRANSFORM" -> [kind |-> "effect", content |-> 0, transform |-> "null"]
      [] name = "FAIL_ACTION" ->
            [kind |-> "reject", type |-> "Error", message |-> "Invalid parameters"]
      [] name = "THROW_ERROR" ->
            [kind |-> "throw", type |-> "Error", message |-> "Test error"]
      [] name = "THROW_STRING" ->
            [kind |-> "throw", type |-> "string", message |-> "thrown string"]
      [] name = "THROW_UNDEFINED" ->
            [kind |-> "throw", type |-> "undefined", message |-> ""]
      [] name = "THROW_OPAQUE" ->
            [kind |-> "throw", type |-> "opaque", message |-> ""]
      [] OTHER ->
            [kind |-> "reject", type |-> "Error", message |-> "Generic error"]

\* effect.transform(state)
Transform(t, s) ==
    CASE t = "count" -> [k \in (DOMAIN s) \cup {"count"} |->
                            IF k = "count" THEN 3 ELSE s[k]]
      [] t = "value" -> [value |-> 1]
      [] OTHER       -> NullState

TransformThrows(t) == t = "throws"

\* String(x) of a thrown x that is no Error throws a TypeError itself when x
\* cannot be converted to a primitive (an object without prototype, an
\* object whose toString throws)
Printable(x) == x.type # "opaque"

\* String(x)
StringOf(x) == IF x.type = "undefined" THEN "undefined" ELSE x.message

\* error instanceof Error ? error : new Error(String(error)), by its message
AsError(x) == IF x.type = "Error" THEN x.message ELSE StringOf(x)

\* new Result(success, content, errors, action, prevState, nextState): the
\* constructor stores what it is given
NewResult(success, content, errors, action, prev, next) ==
    [kind |-> "Result", success |-> success, action |-> action.name,
     content |-> content, prevState |-> prev, nextState |-> next,
     message |-> "", errors |-> errors]

\* Result.success
ResultSuccess(action, content, prev, next) ==
    NewResult(TRUE, content, << >>, action, prev, next)

\* Result.failure
ResultFailure(action, errors, prev, next) ==
    NewResult(FALSE, NullContent, errors, action, prev, next)

\* The promise of the call rejected: neither a Result nor an Issue
Rejected ==
    [kind |-> "Rejected", success |-> FALSE, action |-> "", content |-> NullContent,
     prevState |-> NullState, nextState |-> NullState, message |-> "",
     errors |-> << >>]

\* The call threw an Error with this message
Thrown(message) == [Rejected EXCEPT !.kind = "Thrown", !.message = message]

\* the Issue constructor without its check of result.success
IssueAllowedAlways(result) == TRUE

\* the Issue constructor: if (!result.success)
IssueAllowed(result) == ~result.success

\* new Issue(message, result, action): the Issue carries its failed Result
NewIssue(message, result, action) ==
    IF IssueAllowed(result)
    THEN [kind |-> "Issue", success |-> result.success, action |-> action.name,
          content |-> result.content, prevState |-> result.prevState,
          nextState |-> result.nextState, message |-> message,
          errors |-> result.errors]
    ELSE Thrown("Issue cannot be created from a successful result.")

\* Issue.fromAction(action, error), the Error given by its message
IssueFromAction(action, message) ==
    NewIssue(message, ResultFailure(action, <<message>>, NullState, NullState), action)

NoOutcome ==
    [kind |-> "none", success |-> FALSE, action |-> "", content |-> NullContent,
     prevState |-> NullState, nextState |-> NullState, message |-> "",
     errors |-> << >>]

\* invoke(action, state)
Invoke(action, s) ==
    LET effect == Execute(action.name, s) IN
    IF effect.kind # "effect"
    THEN IF effect.type = "Error" \/ Printable(effect)
         THEN IssueFromAction(action, AsError(effect))
         ELSE Rejected
    ELSE IF TransformThrows(effect.transform)
         THEN IssueFromAction(action, "transform failed")
         ELSE ResultSuccess(action, <<effect.content>>, s,
                            Transform(effect.transform, s))

Generic == NewAction(GenericName, 0)

(* ------------------------------- calls --------------------------------- *)
\* history[j] of the source (0-based); undefined outside the array
Undefined == [name |-> "undefined", ts |-> 0]

HistoryAt(h, j) == IF j + 1 \in 1..Len(h) THEN h[j + 1] ELSE Undefined

\* Store.apply: the outcome of invoke; an Issue outcome is thrown to the
\* handler.  An undefined action makes invoke and apply throw a TypeError,
\* which the catch of rerun, reset and retry wraps with the generic action.
Apply(action, s) ==
    IF action = Undefined
    THEN IssueFromAction(Generic, "Cannot read properties of undefined")
    ELSE LET outcome == Invoke(action, s) IN
         IF outcome.kind = "Rejected"
         THEN IssueFromAction(action, "Cannot convert object to primitive value")
         ELSE outcome

\* manageHistoryBySize, on the array
manageHistoryBySize(h) == Shift(h, maxHistorySize)

\* manageHistoryByTime: the filtered array is a new array
manageHistoryByTime(h) == Filter(h, now, maxHistoryTime)

\* if (this._actionCounter > this._digestInterval)
DigestDueLate(counter) == counter > digestInterval

\* if (this._actionCounter >= this._digestInterval)
DigestDue(counter) == counter >= digestInterval

\* if (index < 0 || index > this._history.length)
InvalidIndexLate(index, h) == index < 0 \/ index > Len(h)

\* if (index < 0 || index >= this._history.length)
InvalidIndex(index, h) == index < 0 \/ index >= Len(h)

\* if (this._currentActionIndex >= -1)
HasActionToResetEarly(index) == index >= -1

\* if (this._currentActionIndex >= 0)
HasActionToReset(index) == index >= 0

\* rerun without the assignment nextState = outcome.nextState
FoldedStale(outcome, next) == next

\* rerun: if (outcome.nextState !== null) nextState = outcome.nextState
Folded(outcome, next) ==
    IF outcome.nextState # NullState THEN outcome.nextState ELSE next

\* history: this._history.splice(0) would move the entries out of _history
HistoryAfterSplice(h) == << >>

\* history: [...this.history] copies the array and leaves _history as it is
HistoryAfterCopy(h) == h

NoDigest == [id |-> 0, state |-> InitialState, history |-> << >>]

\* What a call remembers of the container at its submission
Snapshot ==
    [state |-> state, history |-> history, index |-> currentActionIndex,
     counter |-> actionCounter, digests |-> digests,
     persistCalls |-> persistCalls, successes |-> successes]

NewCall(op, action, base) ==
    [op |-> op, pc |-> "exec", action |-> action, base |-> base,
     callback |-> FALSE, index |-> 0, i |-> 0, next |-> base,
     digestId |-> 0, pending |-> NoDigest, loaded |-> "", ret |-> NoOutcome,
     pre |-> Snapshot, at |-> now, trace |-> << >>, raced |-> FALSE,
     alone |-> \A t \in DOMAIN calls : calls[t].pc \in {"idle", "done"}]

InFlight(s) == calls[s].pc \notin {"idle", "done"}

\* Calls are awaited: a call is submitted only when no other is in flight
CanSubmit(s) ==
    /\ nOps < MaxOps
    /\ \A t \in Slots : ~InFlight(t)
    /\ s = 1

\* The states a caller passes as the base state
BaseStates == {state, InitialState}

Invoked(action, base) == [name |-> action.name, base |-> base]

\* digests with the history array of digest id replaced by h
WithHistory(ds, id, h) ==
    [k \in 1..Len(ds) |-> IF ds[k].id = id THEN [ds[k] EXCEPT !.history = h] ELSE ds[k]]

\* new Map(): no key is registered
NoRegistry == [k \in {} |-> ""]

\* Hooks.hooks = new Map()
NoHooks == [e \in {} |-> << >>]

\* No Hooks.invoke has been called
NoInvocation ==
    [pc |-> "idle", e |-> "", args |-> 0, registered |-> << >>, called |-> << >>,
     promises |-> << >>, settled |-> "no", pendingAtSettle |-> {}]

\* A call that was never submitted
NoCall ==
    [op |-> "none", pc |-> "idle", action |-> Generic,
     base |-> InitialState, callback |-> FALSE, index |-> 0, i |-> 0,
     next |-> InitialState, digestId |-> 0, pending |-> NoDigest,
     loaded |-> "", ret |-> NoOutcome,
     pre |-> [state |-> InitialState, history |-> << >>, index |-> -1,
              counter |-> 0, digests |-> << >>, persistCalls |-> 0,
              successes |-> 0],
     at |-> 0, trace |-> << >>, raced |-> FALSE, alone |-> TRUE]

\* Store.create with in-range bounds; the caller has created its operations
\* with Action.create, which registered their names.  lanes: the calls the
\* caller may have in flight.
Fresh(lanes) ==
    /\ state = InitialState
    /\ currentActionIndex = -1
    /\ actionCounter = 0
    /\ history = << >>
    /\ sharedWith = 0
    /\ digests = << >>
    /\ maxHistorySize \in 1..MaxSize
    /\ maxHistoryTime = 1
    /\ digestInterval \in 1..MaxInterval
    /\ ledger = ActionNames
    /\ external = {}
    /\ now = 0
    /\ nextId = 1
    /\ calls = [s \in lanes |-> NoCall]
    /\ nOps = 0
    /\ created = << >>
    /\ persistCalls = 0
    /\ successes = 0
    /\ persistFailed = FALSE
    /\ registry = NoRegistry
    /\ actions = << >>
    /\ log = << >>
    /\ subscribers = << >>
    /\ middlewares = << >>
    /\ hooks = NoHooks
    /\ invocation = NoInvocation
    /\ lite = [state |-> InitialState, mode |-> "development"]

\* The caller awaits every call before it makes the next
Init == Fresh(Slots)

\* An hour passes.  Time that passes while a call is suspended has the effect
\* of time passing before it was submitted, so the clock moves between calls.
Tick ==
    /\ now < MaxNow
    /\ \A t \in Slots : ~InFlight(t)
    /\ now' = now + 1
    /\ UNCHANGED <<storeVars, configVars, libVars, subscribers, middlewares, hookSide, ledger, external, nextId, calls, nOps,
                   created, persistCalls, successes, persistFailed>>

(* ------------------------------ Store.add ------------------------------ *)
\* add up to the await of apply: the push and the two prunings, then the
\* executable is started
StartAdd(s, name, t, base) ==
    /\ LET action == NewAction(name, t)
           pushed == Append(history, action)
           sized  == manageHistoryBySize(pushed)
       IN /\ history' = manageHistoryByTime(sized)
          /\ digests' = IF sharedWith = 0 THEN digests
                        ELSE WithHistory(digests, sharedWith, sized)
          /\ sharedWith' = 0
          /\ calls' = [calls EXCEPT ![s] =
                 [NewCall("add", action, base) EXCEPT
                     !.trace = <<Invoked(action, base)>>]]
    /\ nOps' = nOps + 1
    /\ UNCHANGED <<state, currentActionIndex, actionCounter, configVars, libVars, subscribers, middlewares, hookSide, ledger,
                   external, now, nextId, created, persistCalls, successes,
                   persistFailed>>

\* add, called when no other call is in flight
SubmitAdd(s, name, t, base) ==
    /\ CanSubmit(s)
    /\ StartAdd(s, name, t, base)

\* Another call is suspended inside makeDigest: its counter has reached the
\* interval and is not yet back at 0
Digesting(s) ==
    \E t \in (DOMAIN calls) \ {s} : calls[t].pc \in {"digest", "persist", "saved"}

\* add from the settling of the executable to the call of makeDigest or to
\* the return
AddSettle(s) ==
    LET c == calls[s]
        outcome == Apply(c.action, c.base)
    IN /\ c.op = "add" /\ c.pc = "exec"
       /\ IF outcome.kind = "Issue"
          THEN /\ calls' = [calls EXCEPT ![s].pc = "done", ![s].ret = outcome]
               /\ UNCHANGED <<state, actionCounter, currentActionIndex, successes>>
          ELSE /\ state' = IF outcome.nextState # NullState
                           THEN Spread(state, outcome.nextState) ELSE state
               /\ actionCounter' = actionCounter + 1
               /\ IF DigestDue(actionCounter + 1)
                  THEN /\ calls' = [calls EXCEPT ![s].pc = "digest", ![s].ret = outcome,
                                                  ![s].raced = Digesting(s)]
                       /\ UNCHANGED <<currentActionIndex, successes>>
                  ELSE /\ currentActionIndex' = Len(history) - 1
                       /\ successes' = successes + 1
                       /\ calls' = [calls EXCEPT ![s].pc = "done", ![s].ret = outcome,
                                                  ![s].raced = Digesting(s)]
       /\ UNCHANGED <<history, sharedWith, digests, configVars, libVars, subscribers, middlewares, hookSide, ledger, external,
                      now, nextId, nOps, created, persistCalls, persistFailed>>

(* ----------------------------- Store.rerun ----------------------------- *)
\* rerun up to its return or to the await of the first apply
SubmitRerun(s, index, base) ==
    /\ CanSubmit(s)
    /\ IF InvalidIndex(index, history)
       THEN calls' = [calls EXCEPT ![s] =
                [NewCall("rerun", Generic, base) EXCEPT
                    !.pc = "done", !.index = index,
                    !.ret = IssueFromAction(Generic, "Invalid index for rerun.")]]
       ELSE LET first == HistoryAt(history, 0)
            IN calls' = [calls EXCEPT ![s] =
                [NewCall("rerun", first, base) EXCEPT
                    !.index = index,
                    !.trace = IF first = Undefined THEN << >>
                              ELSE <<Invoked(first, base)>>]]
    /\ ledger' = ledger \cup {GenericName}
    /\ nOps' = nOps + 1
    /\ UNCHANGED <<storeVars, configVars, libVars, subscribers, middlewares, hookSide, external, now, nextId, created,
                   persistCalls, successes, persistFailed>>

\* one iteration of the loop of rerun settles; after the last one the merge,
\* up to the call of makeDigest or to the return
RerunSettle(s) ==
    LET c == calls[s]
        outcome == Apply(c.action, c.next)
        folded == Folded(outcome, c.next)
        following == HistoryAt(history, c.i + 1)
        due == DigestDue(actionCounter + 1)
    IN /\ c.op = "rerun" /\ c.pc = "exec"
       /\ IF outcome.kind = "Issue"
          THEN /\ calls' = [calls EXCEPT ![s].pc = "done", ![s].ret = outcome]
               /\ UNCHANGED <<state, actionCounter, currentActionIndex, successes>>
          ELSE IF c.i < c.index
          THEN /\ calls' = [calls EXCEPT ![s].i = c.i + 1, ![s].next = folded,
                                ![s].action = following,
                                ![s].trace = IF following = Undefined THEN c.trace
                                             ELSE Append(c.trace, Invoked(following, folded))]
               /\ UNCHANGED <<state, actionCounter, currentActionIndex, successes>>
          ELSE /\ state' = Spread(state, folded)
               /\ currentActionIndex' = c.index
               /\ actionCounter' = actionCounter + 1
               /\ successes' = IF due THEN successes ELSE successes + 1
               /\ calls' = [calls EXCEPT
                     ![s].pc = IF due THEN "digest" ELSE "done",
                     ![s].next = folded,
                     ![s].ret = ResultSuccess(HistoryAt(history, c.index), NullContent,
                                              c.base, folded)]
       /\ UNCHANGED <<history, sharedWith, digests, configVars, libVars, subscribers, middlewares, hookSide, ledger, external,
                      now, nextId, nOps, created, persistCalls, persistFailed>>

(* ------------------------- Store.reset / retry ------------------------- *)
\* reset up to its return or to the await of apply
StartReset(s, base) ==
    /\ IF HasActionToReset(currentActionIndex)
       THEN LET action == HistoryAt(history, currentActionIndex)
            IN calls' = [calls EXCEPT ![s] =
                 [NewCall("reset", action, base) EXCEPT
                     !.trace = IF action = Undefined THEN << >>
                               ELSE <<Invoked(action, base)>>]]
       ELSE calls' = [calls EXCEPT ![s] =
                 [NewCall("reset", Generic, base) EXCEPT
                     !.pc = "done",
                     !.ret = IssueFromAction(Generic, "No actions to reset.")]]
    /\ ledger' = ledger \cup {GenericName}
    /\ nOps' = nOps + 1
    /\ UNCHANGED <<storeVars, configVars, libVars, subscribers, middlewares, hookSide, external, now, nextId, created,
                   persistCalls, successes, persistFailed>>

\* reset, called when no other call is in flight
SubmitReset(s, base) ==
    /\ CanSubmit(s)
    /\ StartReset(s, base)

\* retry up to its return or to the await of apply
SubmitRetry(s, base) ==
    /\ CanSubmit(s)
    /\ LET nextIndex == currentActionIndex + 1
       IN IF nextIndex < Len(history)
          THEN LET action == HistoryAt(history, nextIndex)
               IN calls' = [calls EXCEPT ![s] =
                    [NewCall("retry", action, base) EXCEPT
                        !.index = nextIndex,
                        !.trace = IF action = Undefined THEN << >>
                                  ELSE <<Invoked(action, base)>>]]
          ELSE calls' = [calls EXCEPT ![s] =
                    [NewCall("retry", Generic, base) EXCEPT
                        !.pc = "done",
                        !.ret = IssueFromAction(Generic, "No action available to retry.")]]
    /\ ledger' = ledger \cup {GenericName}
    /\ nOps' = nOps + 1
    /\ UNCHANGED <<storeVars, configVars, libVars, subscribers, middlewares, hookSide, external, now, nextId, created,
                   persistCalls, successes, persistFailed>>

\* reset and retry from the settling of the executable to the call of
\* makeDigest or to the return
ResetRetrySettle(s) ==
    LET c == calls[s]
        outcome == Apply(c.action, c.base)
        merged == Spread(state, outcome.nextState)
    IN /\ c.op \in {"reset", "retry"} /\ c.pc = "exec"
       /\ IF outcome.kind = "Issue"
          THEN /\ calls' = [calls EXCEPT ![s].pc = "done", ![s].ret = outcome]
               /\ UNCHANGED <<state, actionCounter, currentActionIndex, successes>>
          ELSE IF outcome.nextState = NullState
          THEN /\ calls' = [calls EXCEPT ![s].pc = "done",
                     ![s].ret = IssueFromAction(c.action,
                                   IF c.op = "reset"
                                   THEN "Reset failed: unexpected result type"
                                   ELSE "Retry failed at action index")]
               /\ UNCHANGED <<state, actionCounter, currentActionIndex, successes>>
          ELSE /\ state' = merged
               /\ actionCounter' = actionCounter + 1
               /\ IF DigestDue(actionCounter + 1)
                  THEN /\ calls' = [calls EXCEPT ![s].pc = "digest"]
                       /\ UNCHANGED <<currentActionIndex, successes>>
                  ELSE /\ currentActionIndex' =
                              IF c.op = "reset" THEN currentActionIndex - 1 ELSE c.index
                       /\ successes' = successes + 1
                       /\ calls' = [calls EXCEPT ![s].pc = "done",
                             ![s].ret = ResultSuccess(c.action, NullContent, c.base, merged)]
       /\ UNCHANGED <<history, sharedWith, digests, configVars, libVars, subscribers, middlewares, hookSide, ledger, external,
                      now, nextId, nOps, created, persistCalls, persistFailed>>

(* --------------------- makeDigest and saveDigest ----------------------- *)
\* makeSerializableDigest
makeSerializableDigest(digest) ==
    [digest EXCEPT !.history = [k \in 1..Len(digest.history) |->
                                   ActionToJSON(digest.history[k])]]

\* makeDigest recording the state the container had when the call was
\* submitted
DigestedStateBefore(s) == calls[s].pre.state

\* makeDigest: state: this._state
DigestedState(s) == state

\* saveDigest pushing the digest onto the local list on both paths
SavedLocallyAlways(ds, serializable, callback) == Append(ds, serializable)

\* saveDigest: this._digests.push(serializableDigest) only when no callback
\* was given
SavedLocally(ds, serializable, callback) ==
    IF callback THEN ds ELSE Append(ds, serializable)

\* makeDigest and saveDigest up to the await of the persist callback, or to
\* the push onto the local list.  callback: whether the caller passed a
\* persist callback to the handler (it is used nowhere before this point).
MakeDigest(s, callback) ==
    LET c == calls[s]
        digest == [id |-> nextId, state |-> DigestedState(s), history |-> history]
        serializable == makeSerializableDigest(digest)
    IN /\ c.pc = "digest"
       /\ nextId' = nextId + 1
       /\ created' = Append(created, [state |-> digest.state, history |-> digest.history])
       /\ history' = HistoryAfterCopy(history)
       /\ digests' = SavedLocally(digests, serializable, callback)
       /\ IF callback
          THEN /\ persistCalls' = persistCalls + 1
               /\ calls' = [calls EXCEPT ![s].pc = "persist", ![s].callback = TRUE,
                                          ![s].pending = serializable]
          ELSE /\ calls' = [calls EXCEPT ![s].pc = "saved", ![s].pending = serializable]
               /\ UNCHANGED persistCalls
       /\ UNCHANGED <<state, currentActionIndex, actionCounter, sharedWith,
                      configVars, libVars, subscribers, middlewares, hookSide, ledger, external, now, nOps, successes,
                      persistFailed>>

\* The caller's persist callback settles (saveDigest after its await):
\*   "undefined" the callback stored the digest and resolved with nothing
\*   "string"    the callback stored the digest and resolved with a JSON string
\*   "garbage"   the callback resolved with a string JSON.parse rejects
\*   "reject"    the callback rejected with an Error
\*   "nullish"   the callback rejected with undefined: the catch block of
\*               saveDigest reads error.message and throws a TypeError instead
PersistOutcomes == {"undefined", "string", "garbage", "reject", "nullish"}

PersistError(o) ==
    CASE o = "garbage" -> "Unexpected token in JSON"
      [] o = "reject"  -> "persist failed"
      [] OTHER         -> "Cannot read properties of undefined"

PersistSettle(s, o) ==
    LET c == calls[s]
    IN /\ c.pc = "persist"
       /\ IF o \in {"undefined", "string"}
          THEN /\ external' = external \cup {c.pending}
               /\ calls' = [calls EXCEPT ![s].pc = "saved"]
               /\ UNCHANGED persistFailed
          ELSE /\ calls' = [calls EXCEPT ![s].pc = "done",
                     ![s].ret = IssueFromAction(
                                   IF c.op = "add" THEN c.action ELSE Generic,
                                   PersistError(o))]
               /\ persistFailed' = TRUE
               /\ UNCHANGED external
       /\ UNCHANGED <<storeVars, configVars, libVars, subscribers, middlewares, hookSide, ledger, now, nextId, nOps, created,
                      persistCalls, successes>>

\* The handler after makeDigest returned: the counter restarts, the pointer
\* moves (rerun moved it before digesting) and the Result is returned
AfterDigest(s) ==
    LET c == calls[s]
    IN /\ c.pc = "saved"
       /\ actionCounter' = 0
       /\ currentActionIndex' =
              CASE c.op = "add"   -> Len(history) - 1
                [] c.op = "reset" -> currentActionIndex - 1
                [] c.op = "retry" -> c.index
                [] OTHER          -> currentActionIndex
       /\ successes' = 0
       /\ calls' = [calls EXCEPT ![s].pc = "done",
               ![s].ret = IF c.op \in {"reset", "retry"}
                          THEN ResultSuccess(c.action, NullContent, c.base, state)
                          ELSE c.ret]
       /\ UNCHANGED <<state, history, sharedWith, digests, configVars, libVars, subscribers, middlewares, hookSide, ledger,
                      external, now, nextId, nOps, created, persistCalls,
                      persistFailed>>

(* ---------------------- Store.hydrate, findDigest ---------------------- *)
\* hydrate up to the await of findDigest
SubmitHydrate(s, id) ==
    /\ CanSubmit(s)
    /\ calls' = [calls EXCEPT ![s] =
           [NewCall("hydrate", Generic, state) EXCEPT
               !.pc = "fetch", !.digestId = id]]
    /\ ledger' = ledger \cup {GenericName}
    /\ nOps' = nOps + 1
    /\ UNCHANGED <<storeVars, configVars, libVars, subscribers, middlewares, hookSide, external, now, nextId, created,
                   persistCalls, successes, persistFailed>>

\* The fetch callback of the caller settles:
\*   "none"    no callback was given
\*   "hit"     it resolved with the serialized digest the persist callback stored
\*   "foreign" it resolved with a serialized digest this container never made
\*   "miss"    it resolved with undefined or an empty string
\*   "garbage" it resolved with a string JSON.parse rejects
\*   "reject"  it rejected with an Error
\*   "nullish" it rejected with undefined
\*   "unknown" it resolved with a serialized digest whose history names an
\*             operation the registry does not hold
FetchOutcomes ==
    {"none", "hit", "foreign", "miss", "garbage", "reject", "nullish", "unknown"}

\* The digest a fetch callback serves from elsewhere
ForeignDigest(id) == [id |-> id, state |-> [value |-> 1], history |-> << >>]

\* A digest served from elsewhere that records an operation nobody created
UnknownDigest(id) ==
    [id |-> id, state |-> [value |-> 1],
     history |-> <<[name |-> "UNKNOWN_ACTION", ts |-> 0]>>]

Stored(id) == {d \in external : d.id = id}

Local(id) == {k \in 1..Len(digests) : digests[k].id = id}

\* hydrate with the assignment of digest.history left out
RehydratedNot(h) == history

\* digest.history.map(json => Action.fromJSON(json).attach(Ledger.get(name)))
Rehydrated(h) == [k \in 1..Len(h) |-> ActionFromJSON(h[k], now)]

\* Ledger.get throws for a name that is not registered
AllRegistered(h) == \A k \in 1..Len(h) : h[k].name \in ledger

\* hydrate with this._actionCounter = 0 ahead of the await of findDigest
HydrateFailCleared(s, ret, loaded) ==
    /\ calls' = [calls EXCEPT ![s].pc = "done", ![s].ret = ret,
                              ![s].loaded = loaded]
    /\ actionCounter' = 0
    /\ UNCHANGED <<state, currentActionIndex, history, sharedWith, digests,
                   successes>>

\* hydrate returns an Issue (or rejects): nothing was assigned
HydrateFail(s, ret, loaded) ==
    /\ calls' = [calls EXCEPT ![s].pc = "done", ![s].ret = ret,
                              ![s].loaded = loaded]
    /\ UNCHANGED <<storeVars, successes>>

\* findDigest from the digest found on, then the assignments of hydrate.
\* shared: the id of the local digest whose history array the store takes
\* over (0 for a digest parsed from a fetched string)
HydrateFrom(s, digest, shared, loaded) ==
    IF ~AllRegistered(digest.history)
    THEN HydrateFail(s, IssueFromAction(Generic, "Exec function is not registered."),
                     loaded)
    ELSE LET merged == Spread(state, digest.state)
             restored == Rehydrated(digest.history)
         IN /\ state' = merged
            /\ history' = restored
            /\ sharedWith' = shared
            /\ digests' = IF shared = 0 THEN digests
                          ELSE WithHistory(digests, shared, restored)
            /\ currentActionIndex' = Len(restored) - 1
            /\ actionCounter' = 0
            /\ successes' = 0
            /\ calls' = [calls EXCEPT ![s].pc = "done", ![s].loaded = loaded,
                    ![s].ret = ResultSuccess(Generic, NullContent, merged, merged)]

\* hydrate after the await of the fetch callback
HydrateSettle(s, o) ==
    LET c == calls[s]
    IN /\ c.pc = "fetch"
       /\ o = "hit" => Stored(c.digestId) # {}
       /\ CASE o = "hit" ->
                 HydrateFrom(s, CHOOSE d \in Stored(c.digestId) : TRUE, 0, "hit")
            [] o = "foreign" ->
                 HydrateFrom(s, ForeignDigest(c.digestId), 0, "foreign")
            [] o = "unknown" ->
                 HydrateFrom(s, UnknownDigest(c.digestId), 0, "unknown")
            [] o \in {"none", "miss"} ->
                 IF Local(c.digestId) = {}
                 THEN HydrateFail(s, IssueFromAction(Generic,
                                        "Digest not found in local history."), "miss")
                 ELSE HydrateFrom(s,
                         digests[CHOOSE k \in Local(c.digestId) :
                                    \A j \in Local(c.digestId) : k <= j],
                         c.digestId, "local")
            [] o = "garbage" ->
                 HydrateFail(s, IssueFromAction(Generic, "Unexpected token in JSON"),
                             "garbage")
            [] o = "reject" ->
                 HydrateFail(s, IssueFromAction(Generic, "Error fetching digest"),
                             "reject")
            [] OTHER ->
                 HydrateFail(s, Rejected, "nullish")
       /\ UNCHANGED <<configVars, libVars, subscribers, middlewares, hookSide, ledger, external, now, nextId, nOps, created,
                      persistCalls, persistFailed>>

(* ------------------------------------------------------------------------ *)
Submit(s) ==
    \/ \E name \in ActionNames, t \in {0, now}, base \in BaseStates :
          SubmitAdd(s, name, t, base)
    \/ \E index \in -1..Len(history), base \in BaseStates :
          SubmitRerun(s, index, base)
    \/ \E base \in BaseStates : SubmitReset(s, base)
    \/ \E base \in BaseStates : SubmitRetry(s, base)
    \/ \E id \in 0..(nextId - 1) : SubmitHydrate(s, id)

Settle(s) ==
    \/ AddSettle(s)
    \/ RerunSettle(s)
    \/ ResetRetrySettle(s)
    \/ \E callback \in BOOLEAN : MakeDigest(s, callback)
    \/ \E o \in PersistOutcomes : PersistSettle(s, o)
    \/ AfterDigest(s)
    \/ \E o \in FetchOutcomes : HydrateSettle(s, o)

Next ==
    \/ Tick
    \/ \E s \in Slots : Submit(s)
    \/ \E s \in Slots : Settle(s)

Spec == Init /\ [][Next]_vars

\* A caller that never calls reset
SubmitForward(s) ==
    \/ \E name \in ActionNames, t \in {0, now}, base \in BaseStates :
          SubmitAdd(s, name, t, base)
    \/ \E index \in -1..Len(history), base \in BaseStates :
          SubmitRerun(s, index, base)
    \/ \E base \in BaseStates : SubmitRetry(s, base)
    \/ \E id \in 0..(nextId - 1) : SubmitHydrate(s, id)

ForwardNext ==
    \/ Tick
    \/ \E s \in Slots : SubmitForward(s)
    \/ \E s \in Slots : Settle(s)

ForwardSpec == Init /\ [][ForwardNext]_vars

\* The segments of add after its submission
AddSteps(s) ==
    \/ AddSettle(s)
    \/ \E callback \in BOOLEAN : MakeDigest(s, callback)
    \/ \E o \in PersistOutcomes : PersistSettle(s, o)
    \/ AfterDigest(s)

(* --------------------------- overlapping calls -------------------------- *)
\* The caller does not await: a call may be submitted while earlier calls
\* are suspended at their executable, in makeDigest or at the persist
\* callback.  Every call has a lane of its own, in order of submission.
Lanes == 1..MaxOps

\* The lane of the next call
NextLane(s) == nOps < MaxOps /\ s = nOps + 1

\* The operations the caller adds; it hands the current state to every call
OverlapNames == {"TEST_ACTION", "SET_VALUE", "FAIL_ACTION"}

OverlapNext ==
    \/ \E s \in Lanes, name \in OverlapNames :
          NextLane(s) /\ StartAdd(s, name, now, state)
    \/ \E s \in Lanes : NextLane(s) /\ StartReset(s, state)
    \/ \E s \in Lanes : AddSteps(s)
    \/ \E s \in Lanes : ResetRetrySettle(s)

\* A Store with the largest history and every call still to be made
OverlapInit == Fresh(Lanes) /\ maxHistorySize = MaxSize

OverlapSpec == OverlapInit /\ [][OverlapNext]_vars

(* ======================= the library, called directly ================== *)
\* The container is not touched by a direct call of the library
storeSide ==
    <<storeVars, configVars, ledger, external, now, nextId, calls, nOps,
      created, persistCalls, successes, persistFailed>>

\* A fresh process: the defaults of Store.create, nothing registered
LibInit ==
    /\ Init
    /\ maxHistorySize = MaxSize
    /\ digestInterval = MaxInterval

Logged(entry) ==
    /\ Len(log) < MaxLog
    /\ log' = Append(log, entry)

(* -------------------------------- invoke ------------------------------- *)
\* The executables a caller hands to invoke, by the name of their operation
InvokeNames ==
    ActionNames \cup {"THROW_ERROR", "THROW_STRING", "THROW_UNDEFINED", "THROW_OPAQUE"}

\* The states a caller hands to invoke
InvokeStates ==
    {InitialState, [value |-> 1], [value |-> 0, count |-> 3], [value |-> 1, count |-> 0]}

\* await invoke(action, state), action made at time t
CallInvoke(name, t, s) ==
    /\ Logged([op |-> "invoke", name |-> name, state |-> s,
               out |-> Invoke(NewAction(name, t), s)])
    /\ UNCHANGED <<storeSide, subscribers, middlewares, hookSide, registry, actions>>

InvokeNext ==
    \E name \in InvokeNames, s \in InvokeStates : CallInvoke(name, now, s)

InvokeSpec == LibInit /\ [][InvokeNext]_vars

(* ------------------- Action (id-keyed variant), Ledger ----------------- *)
\* Names and executables the callers of Action.create use; an executable is
\* known by what it does.  attach wraps the registered executable in an async
\* function that calls it: the wrapper does what the executable does.
OpNames == {"TEST_ACTION", "OTHER_ACTION"}
Execs == {"f", "g"}

\* async () => { throw new Error("Exec function not implemented. ...") }
StubExec == "stub"

\* uuid(): the k-th identifier drawn
Uuids == <<"uuid-1", "uuid-2", "uuid-3", "uuid-4", "uuid-5", "uuid-6">>

\* The (params, correlationId) pairs the callers pass; "" is undefined
Payloads == {[params |-> <<1, 2, 3>>, correlationId |-> "corr-1"],
             [params |-> << >>, correlationId |-> ""]}

\* Keys handed to Ledger.set, get and has directly
Keys == OpNames \cup {"UNKNOWN_ACTION"}

\* Ledger.has
LedgerHas(reg, k) == k \in DOMAIN reg

\* Map.prototype.set
MapSet(reg, k, f) == [x \in (DOMAIN reg) \cup {k} |-> IF x = k THEN f ELSE reg[x]]

\* Ledger.set without its check
LedgerSetOverwriting(reg, k, f) == MapSet(reg, k, f)

\* Ledger.set: the registry after the call
LedgerSet(reg, k, f) == IF LedgerHas(reg, k) THEN reg ELSE MapSet(reg, k, f)

\* Ledger.set throws for a key that is registered
LedgerSetThrows(reg, k) == LedgerHas(reg, k)

\* Action.create registering whatever it is given
RegisteredByCreateLast(reg, name, exec) == MapSet(reg, name, exec)

\* Action.create: if (!Ledger.has(name)) Ledger.set(name, exec)
RegisteredByCreate(reg, name, exec) ==
    IF ~LedgerHas(reg, name) THEN LedgerSet(reg, name, exec) ELSE reg

\* new Action(name, params, exec, correlationId)
NewIdAction(name, payload, exec) ==
    [id |-> Uuids[Len(actions) + 1], correlationId |-> payload.correlationId,
     name |-> name, params |-> payload.params, exec |-> exec, ts |-> now]

\* The record Action.toJSON returns
ActionRecord(a) ==
    [id |-> a.id, correlationId |-> a.correlationId, name |-> a.name,
     params |-> a.params, timestamp |-> a.ts]

\* Action.fromJSON: the executable of the new Action
RehydratedExec(reg, json) == IF LedgerHas(reg, json.id) THEN reg[json.id] ELSE StubExec

\* Action.execute
ExecuteOutcome(a, s) ==
    IF a.exec = StubExec
    THEN [kind |-> "reject", by |-> "", state |-> s,
          message |-> "Exec function not implemented. Attach exec function using attach()."]
    ELSE [kind |-> "effect", by |-> a.exec, state |-> s, message |-> ""]

Called(entry) ==
    /\ Len(log) < MaxCalls
    /\ log' = Append(log, entry)

\* What a call that has no value to return, or that threw, is logged with
NoRecord == [id |-> "", correlationId |-> "", name |-> "", params |-> << >>,
             timestamp |-> 0]

Entry(op, key, exec, made, out, json, message, post) ==
    [op |-> op, key |-> key, exec |-> exec, made |-> made, out |-> out,
     json |-> json, message |-> message, pre |-> registry, post |-> post]

\* Action.create(name, params, exec, correlationId)
CallCreate(name, payload, exec) ==
    LET reg == RegisteredByCreate(registry, name, exec)
        a == NewIdAction(name, payload, exec)
    IN /\ Len(actions) < MaxActions
       /\ registry' = reg
       /\ actions' = Append(actions, a)
       /\ Called(Entry("create", name, exec, Len(actions) + 1, "action",
                       NoRecord, "", reg))
       /\ UNCHANGED <<storeSide, subscribers, middlewares, hookSide>>

\* actions[i].toJSON()
CallToJSON(i) ==
    LET a == actions[i]
        throws == LedgerSetThrows(registry, a.id)
        reg == LedgerSet(registry, a.id, a.exec)
    IN /\ registry' = reg
       /\ Called(IF throws
                 THEN Entry("toJSON", a.id, a.exec, i, "throw", NoRecord,
                            "already registered", reg)
                 ELSE Entry("toJSON", a.id, a.exec, i, "json", ActionRecord(a),
                            "", reg))
       /\ UNCHANGED <<storeSide, subscribers, middlewares, hookSide, actions>>

\* Action.fromJSON(json), json a record an earlier toJSON returned
CallFromJSON(k) ==
    LET json == log[k].json
        a == [NewIdAction(json.name, json, RehydratedExec(registry, json))
                 EXCEPT !.ts = now]
    IN /\ log[k].op = "toJSON" /\ log[k].out = "json"
       /\ Len(actions) < MaxActions
       /\ actions' = Append(actions, a)
       /\ Called(Entry("fromJSON", json.id, a.exec, Len(actions) + 1, "action",
                       json, "", registry))
       /\ UNCHANGED <<storeSide, subscribers, middlewares, hookSide, registry>>

\* Ledger["registry"].clear(), as the test suites do between tests
ClearRegistry ==
    /\ registry # NoRegistry
    /\ registry' = NoRegistry
    /\ Called(Entry("clear", "", "", 0, "", NoRecord, "", NoRegistry))
    /\ UNCHANGED <<storeSide, subscribers, middlewares, hookSide, actions>>

\* Ledger.set(k, f)
CallSet(k, f) ==
    LET reg == LedgerSet(registry, k, f)
    IN /\ registry' = reg
       /\ Called(IF LedgerSetThrows(registry, k)
                 THEN Entry("set", k, f, 0, "throw", NoRecord, "already registered", reg)
                 ELSE Entry("set", k, f, 0, "true", NoRecord, "", reg))
       /\ UNCHANGED <<storeSide, subscribers, middlewares, hookSide, actions>>

\* Ledger.get(k)
CallGet(k) ==
    /\ Called(IF LedgerHas(registry, k)
              THEN Entry("get", k, registry[k], 0, "exec", NoRecord, "", registry)
              ELSE Entry("get", k, "", 0, "throw", NoRecord, "not registered", registry))
    /\ UNCHANGED <<storeSide, subscribers, middlewares, hookSide, registry, actions>>

\* Ledger.has(k)
CallHas(k) ==
    /\ Called(Entry("has", k, "", 0,
                    IF LedgerHas(registry, k) THEN "true" ELSE "false",
                    NoRecord, "", registry))
    /\ UNCHANGED <<storeSide, subscribers, middlewares, hookSide, registry, actions>>

RegistryNext ==
    \/ \E name \in OpNames, payload \in Payloads, exec \in Execs :
          CallCreate(name, payload, exec)
    \/ \E i \in 1..Len(actions) : CallToJSON(i)
    \/ \E k \in 1..Len(log) : CallFromJSON(k)
    \/ ClearRegistry
    \/ \E k \in Keys, f \in Execs : CallSet(k, f)
    \/ \E k \in Keys : CallGet(k)
    \/ \E k \in Keys : CallHas(k)

RegistrySpec == LibInit /\ [][RegistryNext]_vars

(* ---------------------------- Result, Issue ---------------------------- *)
\* The operation the Results and Issues made here belong to
SomeAction == NewAction("TEST_ACTION", 0)

\* The action of a Result, as the methods of Result pass it on
ActionOf(r) == [name |-> r.action]

\* Functions handed to map: one doubles the content, one returns null
Mappers == {"double", "toNull"}

Mapped(f, content) == IF f = "double" THEN <<2 * content[1]>> ELSE NullContent

\* Functions handed to bind and orElse, by the Result they return
Binders == {"succeeds", "fails"}

Bound(g) ==
    IF g = "succeeds"
    THEN ResultSuccess(SomeAction, <<1>>, NullState, InitialState)
    ELSE ResultFailure(SomeAction, <<"bind failed">>, NullState, NullState)

\* Result.map
ResultMap(r, f) ==
    IF r.success
    THEN ResultSuccess(ActionOf(r),
                       IF r.content # NullContent THEN Mapped(f, r.content)
                       ELSE NullContent,
                       r.prevState, r.nextState)
    ELSE ResultFailure(ActionOf(r), r.errors, r.prevState, r.nextState)

\* Result.bind
ResultBind(r, g) ==
    IF r.success THEN Bound(g)
    ELSE ResultFailure(ActionOf(r), r.errors, r.prevState, r.nextState)

\* Result.recover, with f = errors => errors.length
ResultRecover(r) ==
    IF r.success THEN r
    ELSE ResultSuccess(ActionOf(r), <<Len(r.errors)>>, r.prevState, r.nextState)

\* Result.orElse
ResultOrElse(r, g) == IF r.success THEN r ELSE Bound(g)

\* Records handed to Result.fromJSON.  wellFormed: success is a boolean, the
\* action is there and errors is an array
ResultJSONs ==
    [wellFormed : BOOLEAN, success : BOOLEAN, content : {NullContent, <<3>>},
     errors : {<< >>, <<"boom">>}]

\* Result.fromJSON without a callback
ResultFromJSON(json) ==
    IF ~json.wellFormed
    THEN Thrown("Invalid JSON structure for Result.")
    ELSE NewResult(json.success, json.content, json.errors, SomeAction,
                   NullState, NullState)

\* Records handed to Issue.fromJSON.  wellFormed: action, result and
\* result.errors are there
IssueJSONs == [wellFormed : BOOLEAN, message : {"boom"}, result : ResultJSONs]

\* Issue.fromJSON
IssueFromJSON(json) ==
    IF ~json.wellFormed
    THEN Thrown("Invalid JSON structure for Issue.")
    ELSE LET result == ResultFromJSON(json.result)
         IN IF result.kind = "Thrown" THEN result
            ELSE NewIssue(json.message, result, SomeAction)

\* log[k] holds a Result
IsResult(k) == k \in 1..Len(log) /\ log[k].out.kind = "Result"

Returned(op, from, f, out) ==
    /\ Logged([op |-> op, from |-> from, f |-> f, out |-> out])
    /\ UNCHANGED <<storeSide, subscribers, middlewares, hookSide, registry, actions>>

CallSuccess(content) ==
    Returned("success", NoOutcome, "",
             ResultSuccess(SomeAction, content, NullState, InitialState))

CallFailure(errors) ==
    Returned("failure", NoOutcome, "",
             ResultFailure(SomeAction, errors, NullState, NullState))

CallResultFromJSON(json) ==
    Returned("Result.fromJSON", NewResult(json.success, json.content, json.errors,
                                          SomeAction, NullState, NullState),
             IF json.wellFormed THEN "wellFormed" ELSE "malformed",
             ResultFromJSON(json))

CallMap(k, f) ==
    IsResult(k) /\ Returned("map", log[k].out, f, ResultMap(log[k].out, f))

CallBind(k, g) ==
    IsResult(k) /\ Returned("bind", log[k].out, g, ResultBind(log[k].out, g))

CallRecover(k) ==
    IsResult(k) /\ Returned("recover", log[k].out, "", ResultRecover(log[k].out))

CallOrElse(k, g) ==
    IsResult(k) /\ Returned("orElse", log[k].out, g, ResultOrElse(log[k].out, g))

\* new Issue(message, result, action) on a Result made before
CallNewIssue(k) ==
    IsResult(k) /\ Returned("new Issue", log[k].out, "boom",
                            NewIssue("boom", log[k].out, ActionOf(log[k].out)))

CallIssueFromAction(message) ==
    Returned("fromAction", NoOutcome, message, IssueFromAction(SomeAction, message))

CallIssueFromJSON(json) ==
    Returned("Issue.fromJSON",
             NewResult(json.result.success, json.result.content, json.result.errors,
                       SomeAction, NullState, NullState),
             IF json.wellFormed /\ json.result.wellFormed THEN "wellFormed"
             ELSE "malformed",
             IssueFromJSON(json))

OutcomeNext ==
    \/ \E content \in {NullContent, <<3>>} : CallSuccess(content)
    \/ \E errors \in {<< >>, <<"boom">>} : CallFailure(errors)
    \/ \E json \in ResultJSONs : CallResultFromJSON(json)
    \/ \E k \in 1..Len(log), f \in Mappers : CallMap(k, f)
    \/ \E k \in 1..Len(log), g \in Binders : CallBind(k, g)
    \/ \E k \in 1..Len(log) : CallRecover(k)
    \/ \E k \in 1..Len(log), g \in Binders : CallOrElse(k, g)
    \/ \E k \in 1..Len(log) : CallNewIssue(k)
    \/ \E message \in {"boom", "Generic error"} : CallIssueFromAction(message)
    \/ \E json \in IssueJSONs : CallIssueFromJSON(json)

OutcomeSpec == LibInit /\ [][OutcomeNext]_vars

(* ---------------------------- Store.subscriber -------------------------- *)
\* The callbacks a caller registers: one that returns, one that throws
Callbacks == {"spy", "thrower"}

\* The filters a caller hands to subscriber.watch: one that holds, one that
\* does not
Filters == {"pass", "block"}

\* The states a caller hands to subscriber.alert
AlertStates == {InitialState, [value |-> 1]}

\* What subscriber.add pushes: the callback itself
Plain(callback) == [watch |-> FALSE, filter |-> "pass", callback |-> callback]

\* What subscriber.watch pushes: the callback behind its filter
Filtered(filter, callback) == [watch |-> TRUE, filter |-> filter, callback |-> callback]

\* The subscriber calls its callback
Reaches(sub) == sub.filter = "pass"

\* The subscriber throws when it is called
Throws(sub) == Reaches(sub) /\ sub.callback = "thrower"

\* Array.forEach under a try that spans the whole loop: the index of the
\* first subscriber that throws, where the loop ends; past the end when none
\* throws
LoopEnd(subs) ==
    IF \E i \in 1..Len(subs) : Throws(subs[i])
    THEN CHOOSE i \in 1..Len(subs) :
             /\ Throws(subs[i])
             /\ \A j \in 1..(i - 1) : ~Throws(subs[j])
    ELSE Len(subs) + 1

\* The calls of callbacks that one subscriber.alert makes, each with the
\* arguments it was given
Notified(subs, action, newState) ==
    { [index |-> i, action |-> action, newState |-> newState] :
        i \in { j \in 1..Len(subs) : j <= LoopEnd(subs) /\ Reaches(subs[j]) } }

\* What subscriber.alert returns
AlertReturn(subs) == LoopEnd(subs) > Len(subs)

SubscriberAdd(callback) ==
    /\ Len(subscribers) < MaxObservers
    /\ subscribers' = Append(subscribers, Plain(callback))
    /\ UNCHANGED <<storeSide, libVars, middlewares, hookSide>>

SubscriberWatch(filter, callback) ==
    /\ Len(subscribers) < MaxObservers
    /\ subscribers' = Append(subscribers, Filtered(filter, callback))
    /\ UNCHANGED <<storeSide, libVars, middlewares, hookSide>>

SubscriberAlert(action, newState) ==
    /\ Logged([op |-> "alert", action |-> action, newState |-> newState,
               subs |-> subscribers,
               called |-> Notified(subscribers, action, newState),
               out |-> AlertReturn(subscribers), propagated |-> FALSE])
    /\ UNCHANGED <<storeSide, subscribers, middlewares, hookSide, registry, actions>>

SubscriberNext ==
    \/ \E c \in Callbacks : SubscriberAdd(c)
    \/ \E f \in Filters, c \in Callbacks : SubscriberWatch(f, c)
    \/ \E s \in AlertStates : SubscriberAlert(SomeAction, s)

SubscriberSpec == LibInit /\ [][SubscriberNext]_vars

(* ---------------------------- Store.middleware -------------------------- *)
\* The filters a caller hands to middleware.add; "none": no filter
MiddlewareFilters == {"none", "pass", "block"}

\* What middleware.add pushes: the function itself, or the function behind
\* its filter
Intercepting(fn, filter) ==
    IF filter = "none" THEN Plain(fn) ELSE Filtered(filter, fn)

\* The calls of middleware functions that one middleware.apply makes:
\* Array.forEach under a try that spans the whole loop
Intercepted(mws, action) ==
    { [index |-> i, action |-> action] :
        i \in { j \in 1..Len(mws) : j <= LoopEnd(mws) /\ Reaches(mws[j]) } }

\* middleware.add
MiddlewareAdd(fn, filter) ==
    /\ Len(middlewares) < MaxMiddlewares
    /\ middlewares' = Append(middlewares, Intercepting(fn, filter))
    /\ UNCHANGED <<storeSide, libVars, subscribers, hookSide>>

\* middleware.apply, called by the caller of the Store
MiddlewareApply(action) ==
    /\ Logged([op |-> "middleware.apply", action |-> action,
               called |-> Intercepted(middlewares, action),
               out |-> AlertReturn(middlewares)])
    /\ UNCHANGED <<storeSide, subscribers, middlewares, hookSide, registry, actions>>

\* A Store with middleware: the caller registers middleware, applies it
\* itself and adds operations
MiddlewareNext ==
    \/ \E fn \in Callbacks, filter \in MiddlewareFilters : MiddlewareAdd(fn, filter)
    \/ MiddlewareApply(SomeAction)
    \/ \E s \in Slots, name \in {"TEST_ACTION", "FAIL_ACTION"} :
          SubmitAdd(s, name, now, state)
    \/ \E s \in Slots : AddSteps(s)

MiddlewareSpec == LibInit /\ [][MiddlewareNext]_vars

(* --------------------------------- Hooks -------------------------------- *)
\* The functions a caller registers: one that returns, one that throws, one
\* that returns a rejected promise, one that returns a promise which resolves
\* later
HookFns == {"sync", "throws", "rejects", "slow"}

\* The events of the Hooks tests
TestEvents == {"test", "other"}

\* The arguments a caller hands to Hooks.invoke
HookArgs == {1, 2}

\* Map.set and Map.delete on Hooks.hooks
HooksSet(h, e, list) == [x \in (DOMAIN h) \cup {e} |-> IF x = e THEN list ELSE h[x]]
HooksDelete(h, e) == [x \in (DOMAIN h) \ {e} |-> h[x]]

\* Hooks.has
HooksHas(h, e) == e \in DOMAIN h

\* hooks.some(hook => hook === f) and registered.findIndex(hook => hook === f)
IndexOf(list, f) ==
    IF \E i \in 1..Len(list) : list[i] = f
    THEN CHOOSE i \in 1..Len(list) : list[i] = f /\ \A j \in 1..(i - 1) : list[j] # f
    ELSE 0

\* registered.splice(index, 1)
Spliced(list, index) ==
    [i \in 1..(Len(list) - 1) |-> IF i < index THEN list[i] ELSE list[i + 1]]

\* Hooks.register: the map it leaves and the value it returns
Registered(h, e, f) ==
    IF ~HooksHas(h, e) THEN [hooks |-> HooksSet(h, e, <<f>>), out |-> TRUE]
    ELSE IF IndexOf(h[e], f) > 0 THEN [hooks |-> h, out |-> FALSE]
    ELSE [hooks |-> HooksSet(h, e, Append(h[e], f)), out |-> TRUE]

\* Hooks.unregister without the removal of an event left with no function
AfterSpliceKept(h, e, list) == HooksSet(h, e, list)

\* Hooks.unregister after its splice: an event left with no function is
\* deleted from the map
AfterSplice(h, e, list) ==
    IF Len(list) = 0 THEN HooksDelete(h, e) ELSE HooksSet(h, e, list)

\* Hooks.unregister: the map it leaves and the value it returns
Unregistered(h, e, f) ==
    IF HooksHas(h, e) /\ IndexOf(h[e], f) > 0
    THEN [hooks |-> AfterSplice(h, e, Spliced(h[e], IndexOf(h[e], f))), out |-> TRUE]
    ELSE [hooks |-> h, out |-> FALSE]

\* The promise that the map of Hooks.invoke makes of one function
PromiseOf(f) ==
    CASE f = "sync" -> "resolved"
      [] f = "throws" -> "rejected"
      [] f = "rejects" -> "rejected"
      [] f = "slow" -> "pending"

\* Promise.all: rejected as soon as one promise is, resolved once all are
AllSettles(promises) ==
    IF \E i \in 1..Len(promises) : promises[i] = "rejected" THEN "rejected"
    ELSE IF \A i \in 1..Len(promises) : promises[i] = "resolved" THEN "resolved"
    ELSE "no"

HookCalled(entry) ==
    /\ Len(log) < MaxHookCalls
    /\ log' = Append(log, entry)

CallRegister(e, f) ==
    /\ HookCalled([op |-> "register", e |-> e, f |-> f, pre |-> hooks,
                   out |-> Registered(hooks, e, f).out])
    /\ hooks' = Registered(hooks, e, f).hooks
    /\ UNCHANGED <<storeSide, subscribers, middlewares, registry, actions, invocation, lite>>

CallUnregister(e, f) ==
    /\ HookCalled([op |-> "unregister", e |-> e, f |-> f, pre |-> hooks,
                   out |-> Unregistered(hooks, e, f).out])
    /\ hooks' = Unregistered(hooks, e, f).hooks
    /\ UNCHANGED <<storeSide, subscribers, middlewares, registry, actions, invocation, lite>>

CallClear(e) ==
    /\ HookCalled([op |-> "clear", e |-> e, f |-> "", pre |-> hooks, out |-> TRUE])
    /\ hooks' = HooksDelete(hooks, e)
    /\ UNCHANGED <<storeSide, subscribers, middlewares, registry, actions, invocation, lite>>

CallClearAll ==
    /\ HookCalled([op |-> "clearAll", e |-> "", f |-> "", pre |-> hooks, out |-> TRUE])
    /\ hooks' = NoHooks
    /\ UNCHANGED <<storeSide, subscribers, middlewares, registry, actions, invocation, lite>>

\* Hooks.invoke up to its await: every registered function has been called,
\* in order, each inside its own try
InvokeStart(e, args) ==
    /\ invocation.pc # "waiting"
    /\ LET registered == IF HooksHas(hooks, e) THEN hooks[e] ELSE << >>
           promises == [i \in 1..Len(registered) |-> PromiseOf(registered[i])]
       IN invocation' =
              [pc |-> IF HooksHas(hooks, e) THEN "waiting" ELSE "done",
               e |-> e, args |-> args, registered |-> registered,
               called |-> [i \in 1..Len(registered) |->
                             [f |-> registered[i], args |-> args]],
               promises |-> promises,
               settled |-> IF HooksHas(hooks, e) THEN "no" ELSE "resolved",
               pendingAtSettle |-> {}]
    /\ UNCHANGED <<storeSide, subscribers, middlewares, libVars, hooks, lite>>

\* The promise of a function that was called resolves
HookCompletes(i) ==
    /\ i \in 1..Len(invocation.promises)
    /\ invocation.promises[i] = "pending"
    /\ invocation' = [invocation EXCEPT !.promises[i] = "resolved"]
    /\ UNCHANGED <<storeSide, subscribers, middlewares, libVars, hooks, lite>>

\* await Promise.all(promises) returns or throws
InvokeSettles ==
    /\ invocation.pc = "waiting"
    /\ AllSettles(invocation.promises) # "no"
    /\ invocation' =
           [invocation EXCEPT
               !.pc = "done",
               !.settled = AllSettles(invocation.promises),
               !.pendingAtSettle =
                   { i \in 1..Len(invocation.promises) :
                       invocation.promises[i] = "pending" }]
    /\ UNCHANGED <<storeSide, subscribers, middlewares, libVars, hooks, lite>>

HooksNext ==
    \/ \E e \in TestEvents, f \in HookFns : CallRegister(e, f)
    \/ \E e \in TestEvents, f \in HookFns : CallUnregister(e, f)
    \/ \E e \in TestEvents : CallClear(e)
    \/ CallClearAll
    \/ \E e \in TestEvents, a \in HookArgs : InvokeStart(e, a)
    \/ \E i \in 1..MaxHookCalls : HookCompletes(i)
    \/ InvokeSettles

HooksSpec == LibInit /\ [][HooksNext]_vars

(* ------------------------- the lightweight Store ------------------------ *)
\* The modes Store.create accepts
Modes == {"development", "production", "test"}

\* The events the lightweight Store invokes
ApplyEvents == {"before-state-change", "after-state-change", "after-action-cleanup"}
HydrateEvents ==
    {"before-hydrate", "state-validation", "after-hydrate", "hydrate-error",
     "after-hydration-cleanup"}

\* The executables handed to the lightweight Store, by the name of their
\* operation: SET_VALUE returns a new state, MUTATE_EXEC writes to the state
\* it is given before it resolves, MUTATE_TRANSFORM does so in its transform
LiteNames ==
    {"SET_VALUE", "NULL_TRANSFORM", "MUTATE_EXEC", "MUTATE_TRANSFORM",
     "THROW_ERROR", "THROW_OPAQUE"}

\* The texts handed to hydrate
Serialized == {"{", "{\"value\":0}", "{\"value\":1}"}

\* What the executables write
Flipped(s) == [value |-> 1 - s.value]

\* await Hooks.invoke(e, ...): it throws when the promise of a registered
\* function is rejected
Awaited(h, e) ==
    IF HooksHas(h, e)
       /\ \E i \in 1..Len(h[e]) : PromiseOf(h[e][i]) = "rejected"
    THEN "rejected"
    ELSE "resolved"

\* The number of functions registered
HookCount(h) ==
    Cardinality(UNION { { <<e, i>> : i \in 1..Len(h[e]) } : e \in DOMAIN h })

\* Store.apply without the freeze of the clone
FrozenNever(mode) == FALSE

\* this.freeze(...), applied in development mode only
Frozen(mode) == mode = "development"

\* The object apply hands to invoke: in development mode a frozen clone,
\* otherwise this._state itself
Handed(st) ==
    [value |-> st.state.value, frozen |-> Frozen(st.mode),
     own |-> st.mode # "development"]

\* An assignment to a property of the state handed over, in strict mode: a
\* TypeError on a frozen object; otherwise the object changes, and with it
\* this._state when the object is this._state
Assigned(st, handed) ==
    IF handed.frozen
    THEN [threw |-> TRUE, arg |-> [value |-> handed.value], state |-> st.state]
    ELSE [threw |-> FALSE, arg |-> Flipped(handed),
          state |-> IF handed.own THEN Flipped(handed) ELSE st.state]

\* Store.invoke of the lightweight Store: what it returns, and this._state
\* when it returns
LiteInvoke(action, st) ==
    LET handed == Handed(st)
        arg == [value |-> handed.value]
        w == Assigned(st, handed)
    IN CASE action.name = "SET_VALUE" ->
              [out |-> ResultSuccess(action, <<1>>, arg, Flipped(arg)), state |-> st.state]
         [] action.name = "NULL_TRANSFORM" ->
              [out |-> ResultSuccess(action, <<0>>, arg, NullState), state |-> st.state]
         [] action.name \in {"MUTATE_EXEC", "MUTATE_TRANSFORM"} ->
              IF w.threw
              THEN [out |-> IssueFromAction(action,
                                "Cannot assign to read only property 'value' of object"),
                    state |-> w.state]
              ELSE [out |-> ResultSuccess(action, NullContent, w.arg, w.arg),
                    state |-> w.state]
         [] action.name = "THROW_ERROR" ->
              [out |-> IssueFromAction(action, "Invalid parameters"), state |-> st.state]
         [] action.name = "THROW_OPAQUE" ->
              [out |-> Thrown("Cannot convert object to primitive value"),
               state |-> st.state]

\* Store.apply of the lightweight Store: what it returns, whether its promise
\* resolves, and this._state when it settles
LiteApplied(action, st, h) ==
    LET r == LiteInvoke(action, st)
        body ==
            IF Awaited(h, "before-state-change") = "rejected"
            THEN [ret |-> IssueFromAction(action, "hook"), state |-> st.state,
                  events |-> <<"before-state-change">>]
            ELSE IF r.out.kind = "Thrown"
            THEN [ret |-> IssueFromAction(action, r.out.message), state |-> r.state,
                  events |-> <<"before-state-change">>]
            ELSE IF r.out.kind = "Result" /\ r.out.success
                    /\ r.out.nextState # NullState
            THEN IF Awaited(h, "after-state-change") = "rejected"
                 THEN [ret |-> IssueFromAction(action, "hook"),
                       state |-> r.out.nextState,
                       events |-> <<"before-state-change", "after-state-change">>]
                 ELSE [ret |-> r.out, state |-> r.out.nextState,
                       events |-> <<"before-state-change", "after-state-change">>]
            ELSE [ret |-> r.out, state |-> r.state,
                  events |-> <<"before-state-change">>]
    IN [ret |-> body.ret, state |-> body.state,
        events |-> Append(body.events, "after-action-cleanup"),
        settled |-> Awaited(h, "after-action-cleanup")]

\* JSON.parse of the texts handed to hydrate
JSONParse(text) ==
    CASE text = "{\"value\":0}" -> [ok |-> TRUE, value |-> [value |-> 0]]
      [] text = "{\"value\":1}" -> [ok |-> TRUE, value |-> [value |-> 1]]
      [] OTHER -> [ok |-> FALSE, value |-> NullState]

\* Store.hydrate of the lightweight Store: what it returns, whether its
\* promise resolves, this._state when it settles, and the events it has
\* handed to Hooks.invoke, in order
LiteHydrated(text, st, h) ==
    LET parsed == JSONParse(text)
        caught(left, events) ==
            [ret |-> FALSE, state |-> left,
             events |-> Append(events, "hydrate-error"),
             settled |-> Awaited(h, "hydrate-error")]
        body ==
            IF Awaited(h, "before-hydrate") = "rejected"
            THEN caught(st.state, <<"before-hydrate">>)
            ELSE IF ~parsed.ok
            THEN [ret |-> FALSE, state |-> st.state,
                  events |-> <<"before-hydrate">>,
                  settled |-> "resolved"]
            ELSE IF Awaited(h, "state-validation") = "rejected"
            THEN caught(st.state, <<"before-hydrate", "state-validation">>)
            ELSE IF Awaited(h, "after-hydrate") = "rejected"
            THEN caught(parsed.value,
                        <<"before-hydrate", "state-validation", "after-hydrate">>)
            ELSE [ret |-> TRUE, state |-> parsed.value,
                  events |-> <<"before-hydrate", "state-validation", "after-hydrate">>,
                  settled |-> "resolved"]
    IN [ret |-> body.ret, state |-> body.state,
        events |-> Append(body.events, "after-hydration-cleanup"),
        settled |-> IF Awaited(h, "after-hydration-cleanup") = "rejected"
                    THEN "rejected" ELSE body.settled]

\* A call of the lightweight Store and what it returned: the latest one is
\* kept
Latest(entry) == log' = <<entry>>

\* Store.create(initialState, mode)
LiteCreate(mode) ==
    /\ lite # [state |-> InitialState, mode |-> mode]
    /\ lite' = [state |-> InitialState, mode |-> mode]
    /\ UNCHANGED <<storeSide, subscribers, middlewares, libVars, hooks, invocation>>

\* Hooks.register by the application that owns the Store
LiteRegister(e, f) ==
    /\ HookCount(hooks) < MaxHooks
    /\ hooks' = Registered(hooks, e, f).hooks
    /\ UNCHANGED <<storeSide, subscribers, middlewares, libVars, invocation, lite>>

LiteApply(name) ==
    LET action == NewAction(name, 0)
        r == LiteApplied(action, lite, hooks)
    IN /\ Latest([op |-> "apply", name |-> name, text |-> "", mode |-> lite.mode,
                  hooks |-> hooks, handed |-> Handed(lite), pre |-> lite.state,
                  post |-> r.state, out |-> r.ret, flag |-> FALSE,
                  settled |-> r.settled, events |-> r.events])
       /\ lite' = [lite EXCEPT !.state = r.state]
       /\ UNCHANGED <<storeSide, subscribers, middlewares, registry, actions, hooks, invocation>>

LiteHydrate(text) ==
    LET r == LiteHydrated(text, lite, hooks)
    IN /\ Latest([op |-> "hydrate", name |-> "", text |-> text, mode |-> lite.mode,
                  hooks |-> hooks, handed |-> Handed(lite), pre |-> lite.state,
                  post |-> r.state, out |-> NoOutcome, flag |-> r.ret,
                  settled |-> r.settled, events |-> r.events])
       /\ lite' = [lite EXCEPT !.state = r.state]
       /\ UNCHANGED <<storeSide, subscribers, middlewares, registry, actions, hooks, invocation>>

LiteNext ==
    \/ \E m \in Modes : LiteCreate(m)
    \/ \E e \in ApplyEvents \cup HydrateEvents, f \in HookFns : LiteRegister(e, f)
    \/ \E n \in LiteNames : LiteApply(n)
    \/ \E t \in Serialized : LiteHydrate(t)

LiteSpec == LibInit /\ [][LiteNext]_vars

(* ----------------------------- Store.create ----------------------------- *)
\* A JavaScript number: an integer, a number strictly between floor and
\* floor + 1, or NaN
Whole(n) == [kind |-> "int", floor |-> n]
Frac(n) == [kind |-> "frac", floor |-> n]
NaN == [kind |-> "nan", floor |-> 0]

\* x <= k, x < k and x > k of JavaScript, for an integer k: every comparison
\* with NaN is false
LessOrEqual(x, k) ==
    CASE x.kind = "int" -> x.floor <= k
      [] x.kind = "frac" -> x.floor < k
      [] x.kind = "nan" -> FALSE

LessThan(x, k) ==
    CASE x.kind = "int" -> x.floor < k
      [] x.kind = "frac" -> x.floor < k
      [] x.kind = "nan" -> FALSE

GreaterThan(x, k) ==
    CASE x.kind = "int" -> x.floor > k
      [] x.kind = "frac" -> x.floor >= k
      [] x.kind = "nan" -> FALSE

\* The limits Store.create compares with
SizeLimit == 100000
OneHour == 3600000
SevenDays == 604800000

\* The values of maxHistorySize and maxHistoryTime a caller passes
SizeInputs ==
    {Whole(-1), Whole(0), Frac(0), Whole(1), Whole(50), Whole(SizeLimit), Frac(SizeLimit),
     Whole(SizeLimit + 1), NaN}
TimeInputs ==
    {Whole(OneHour - 1), Frac(OneHour - 1), Whole(OneHour), Whole(SevenDays),
     Frac(SevenDays), Whole(SevenDays + 1), NaN}

\* Store.create: the error it throws, or the fields of the Store it returns
StoreCreate(size, time) ==
    IF LessOrEqual(size, 0) \/ GreaterThan(size, SizeLimit)
    THEN [threw |-> TRUE, message |-> "maxHistorySize must be between 1 and 100000.",
          history |-> << >>, currentActionIndex |-> -1, actionCounter |-> 0]
    ELSE IF LessThan(time, OneHour) \/ GreaterThan(time, SevenDays)
    THEN [threw |-> TRUE, message |-> "maxHistoryTime must be between 1 hour and 7 days.",
          history |-> << >>, currentActionIndex |-> -1, actionCounter |-> 0]
    ELSE [threw |-> FALSE, message |-> "",
          history |-> << >>, currentActionIndex |-> -1, actionCounter |-> 0]

CallStoreCreate(size, time) ==
    /\ Logged([op |-> "Store.create", size |-> size, time |-> time,
               out |-> StoreCreate(size, time)])
    /\ UNCHANGED <<storeSide, subscribers, middlewares, hookSide, registry, actions>>

CreateNext ==
    \E size \in SizeInputs, time \in TimeInputs : CallStoreCreate(size, time)

CreateSpec == LibInit /\ [][CreateNext]_vars

(* ============================== claims ================================= *)
Done(s) == calls[s].pc = "done"

Mutating == {"add", "rerun", "reset", "retry"}

\* new is old overlaid at the top level by over; null overlays nothing
Overlaid(old, over, new) ==
    IF over = NullState THEN new = old
    ELSE /\ DOMAIN new = (DOMAIN old) \cup (DOMAIN over)
         /\ \A k \in DOMAIN over : new[k] = over[k]
         /\ \A k \in (DOMAIN old) \ (DOMAIN over) : new[k] = old[k]

\* C1: whenever add resolves to an Issue, the container state equals the
\* container state before the call.
AddIssueLeavesState ==
    \A s \in Slots :
        (Done(s) /\ calls[s].op = "add" /\ calls[s].ret.kind = "Issue")
            => state = calls[s].pre.state

\* C2: every call to add, rerun, reset, retry and hydrate resolves to a
\* Result or an Issue and never rejects.
NeverRejects ==
    \A s \in Slots : Done(s) => calls[s].ret.kind \in {"Result", "Issue"}

\* C3: after a successful add whose outcome has a non-null nextState, the
\* container state is the previous container state overlaid at the top level
\* by nextState, and the Result carries the content of the executable; state
\* {value: 0} with content 3 and transform s => ({...s, count: 3}) gives
\* content 3 and state {value: 0, count: 3}.
AddMergesNextState ==
    \A s \in Slots :
        LET c == calls[s] IN
        (Done(s) /\ c.op = "add" /\ c.ret.kind = "Result"
                 /\ c.ret.nextState # NullState)
            => /\ Overlaid(c.pre.state, c.ret.nextState, state)
               /\ c.ret.content = <<Execute(c.action.name, c.base).content>>
               /\ (c.action.name = "TEST_ACTION" /\ c.pre.state = [value |-> 0]
                      /\ c.base = c.pre.state)
                    => /\ c.ret.content = <<3>>
                       /\ state = [value |-> 0, count |-> 3]

\* a successful add whose nextState lacks a key of the previous state
AddMergesNextStateWitness ==
    \E s \in Slots :
        /\ Done(s) /\ calls[s].op = "add" /\ calls[s].ret.kind = "Result"
        /\ calls[s].ret.nextState = [value |-> 1]
        /\ calls[s].pre.state = [value |-> 0, count |-> 3]

\* C4: after every add, successful or failed, history.length <=
\* maxHistorySize and no entry is older, at the time of the pruning, than
\* maxHistoryTime.
HistoryBounded ==
    \A s \in Slots :
        (calls[s].op = "add" /\ calls[s].pc # "idle")
            => /\ Len(history) <= maxHistorySize
               /\ \A k \in 1..Len(history) :
                     calls[s].at - history[k].ts <= maxHistoryTime

\* a failed add into a full history that evicted the oldest entry by size
\* and the next one by age
HistoryBoundedWitness ==
    \E s \in Slots :
        /\ Done(s) /\ calls[s].op = "add" /\ calls[s].ret.kind = "Issue"
        /\ Len(calls[s].pre.history) = maxHistorySize
        /\ maxHistorySize > 1
        /\ Len(history) = 1

\* C5: as long as no persist callback has failed, a call of add, rerun,
\* reset or retry creates a digest (one invocation of the persist callback or
\* one entry more in the local list) exactly if it returns a Result and is
\* the digestInterval-th call that does so since the last digest or hydrate;
\* a call that returns an Issue creates none.
DigestEveryInterval ==
    \A s \in Slots :
        LET c == calls[s]
            made == (persistCalls - c.pre.persistCalls)
                      + (Len(digests) - Len(c.pre.digests))
        IN (Done(s) /\ c.op \in Mutating /\ ~persistFailed)
             => /\ made = IF c.ret.kind = "Result"
                             /\ c.pre.successes + 1 = digestInterval
                          THEN 1 ELSE 0
                /\ (c.callback /\ c.ret.kind = "Result")
                      => /\ persistCalls = c.pre.persistCalls + 1
                         /\ Len(digests) = Len(c.pre.digests)

\* the second successful call under digestInterval = 2 has invoked the
\* persist callback, after a first one that did not
DigestEveryIntervalWitness ==
    \E s \in Slots :
        /\ Done(s) /\ calls[s].op \in Mutating /\ calls[s].ret.kind = "Result"
        /\ digestInterval = 2 /\ calls[s].pre.successes = 1
        /\ calls[s].callback /\ persistCalls = 1 /\ ~persistFailed

\* C6: a successful hydrate from a digest this container made leaves the
\* container state equal to the state at the creation of the digest and the
\* history equal to the history at its creation.
HydrateRestoresSnapshot ==
    \A s \in Slots :
        LET c == calls[s] IN
        (Done(s) /\ c.op = "hydrate" /\ c.ret.kind = "Result"
                 /\ c.loaded \in {"local", "hit"})
            => /\ state = created[c.digestId].state
               /\ Names(history) = Names(created[c.digestId].history)

\* C7: creating a digest, with or without a persist callback, leaves the
\* container state, the history and currentActionIndex as they are.
DigestLeavesStore ==
    [][(\E s \in Slots : calls[s].pc \in {"digest", "persist"})
          => /\ state' = state
             /\ history' = history
             /\ currentActionIndex' = currentActionIndex]_vars

\* a digest was handed to a persist callback, which resolved, while the
\* local list holds an earlier digest
DigestLeavesStoreWitness ==
    \E s \in Slots :
        /\ calls[s].pc = "saved" /\ calls[s].callback
        /\ Len(digests) > 0
        /\ Len(history) > 0

\* C8: rerun with index < 0 or index >= history.length yields an Issue,
\* invokes no executable and leaves state, currentActionIndex, actionCounter
\* and the digests unchanged.
RerunOutOfRange ==
    \A s \in Slots :
        LET c == calls[s] IN
        (c.op = "rerun" /\ c.pc # "idle"
            /\ (c.index < 0 \/ c.index >= Len(c.pre.history)))
          => /\ Done(s) /\ c.ret.kind = "Issue"
             /\ c.trace = << >>
             /\ state = c.pre.state
             /\ currentActionIndex = c.pre.index
             /\ actionCounter = c.pre.counter
             /\ digests = c.pre.digests

\* rerun(history.length) on a container with history and applied actions
RerunOutOfRangeWitness ==
    \E s \in Slots :
        /\ Done(s) /\ calls[s].op = "rerun"
        /\ Len(history) > 0 /\ calls[s].index = Len(history)
        /\ currentActionIndex >= 0

RECURSIVE BaseOfStrict(_, _, _)
\* the state the claim gives to invocation j (1-based) of rerun: the
\* nextState of the previous invocation
BaseOfStrict(h, j, base) ==
    IF j = 1 THEN base
    ELSE Invoke(h[j - 1], BaseOfStrict(h, j - 1, base)).nextState

RECURSIVE BaseOf(_, _, _)
\* the state given to invocation j (1-based) of rerun: the latest non-null
\* nextState of the invocations before it, the base state if there is none
BaseOf(h, j, base) ==
    IF j = 1 THEN base
    ELSE LET before == BaseOf(h, j - 1, base)
             next == Invoke(h[j - 1], before).nextState
         IN IF next # NullState THEN next ELSE before

\* The parts of C9 that do not depend on how the base states are folded
RerunShape(s, Base(_, _, _)) ==
    LET c == calls[s]
        h == c.pre.history
        n == Len(c.trace)
        last == Invoke(h[n], c.trace[n].base)
    IN /\ n \in 1..(c.index + 1)
       /\ \A j \in 1..n : c.trace[j] = [name |-> h[j].name, base |-> Base(h, j, c.base)]
       /\ \A j \in 1..(n - 1) : Invoke(h[j], c.trace[j].base).kind = "Result"
       /\ IF last.kind = "Issue"
          THEN /\ c.ret = last
               /\ state = c.pre.state
               /\ currentActionIndex = c.pre.index
               /\ actionCounter = c.pre.counter
          ELSE /\ n = c.index + 1
               /\ Overlaid(c.pre.state, Base(h, n + 1, c.base), state)
               /\ currentActionIndex = c.index

RerunValid(s) ==
    /\ Done(s) /\ calls[s].op = "rerun"
    /\ calls[s].index >= 0 /\ calls[s].index < Len(calls[s].pre.history)

\* C9 as claimed: rerun(index) with a valid index invokes history[0..index]
\* in order, each on the nextState of the previous success (the base state
\* for the first); if all succeed the state is the old state overlaid by the
\* final folded state and currentActionIndex = index; if one fails, rerun
\* returns that Issue, invokes no later entry and leaves state,
\* currentActionIndex and actionCounter unchanged.
RerunFoldsStrictly ==
    \A s \in Slots : RerunValid(s) => RerunShape(s, BaseOfStrict)

\* C9 as amended: the same, each invocation being given the latest non-null
\* nextState of the successes before it (the base state if there is none).
RerunFolds ==
    \A s \in Slots : RerunValid(s) => RerunShape(s, BaseOf)

\* rerun(1) has succeeded over a history whose first entry gave a null
\* nextState: the second entry ran on the base state and the pointer is at 1
RerunFoldsWitness ==
    \E s \in Slots :
        /\ RerunValid(s) /\ calls[s].index = 1 /\ calls[s].ret.kind = "Result"
        /\ Len(calls[s].trace) = 2
        /\ calls[s].trace[1].name = "NULL_TRANSFORM"
        /\ calls[s].trace[2].base = calls[s].base
        /\ calls[s].ret.nextState # NullState
        /\ currentActionIndex = 1

\* C10: reset with currentActionIndex = -1 returns the Issue "No actions to
\* reset." and retry with no entry at currentActionIndex + 1 returns the
\* Issue "No action available to retry."; no executable is invoked and state,
\* history, currentActionIndex and actionCounter are unchanged.
NothingToResetOrRetry ==
    \A s \in Slots :
        LET c == calls[s]
            nothing == \/ c.op = "reset" /\ c.pre.index = -1
                       \/ c.op = "retry" /\ c.pre.index + 1 >= Len(c.pre.history)
        IN (c.pc # "idle" /\ nothing)
             => /\ Done(s) /\ c.ret.kind = "Issue"
                /\ c.ret.message = IF c.op = "reset" THEN "No actions to reset."
                                   ELSE "No action available to retry."
                /\ c.trace = << >>
                /\ state = c.pre.state
                /\ history = c.pre.history
                /\ currentActionIndex = c.pre.index
                /\ actionCounter = c.pre.counter

\* reset on a container whose only add failed: history is not empty, the
\* pointer is -1
NothingToResetOrRetryWitness ==
    \E s \in Slots :
        /\ Done(s) /\ calls[s].op = "reset"
        /\ calls[s].pre.index = -1 /\ Len(calls[s].pre.history) > 0
        /\ calls[s].ret.message = "No actions to reset."

\* The digest findDigest handed to a hydrate that has returned a Result: the
\* fetched one if the fetch callback served one, else the one of the local
\* list as it was at the call
FoundDigest(s) ==
    LET c == calls[s]
        local == {k \in 1..Len(c.pre.digests) : c.pre.digests[k].id = c.digestId}
    IN CASE c.loaded = "hit"     -> CHOOSE d \in external : d.id = c.digestId
         [] c.loaded = "foreign" -> ForeignDigest(c.digestId)
         [] OTHER -> c.pre.digests[CHOOSE k \in local : \A j \in local : k <= j]

HydrateIssueLeavesStore ==
    \A s \in Slots :
        LET c == calls[s] IN
        (Done(s) /\ c.op = "hydrate" /\ c.ret.kind = "Issue")
            => /\ state = c.pre.state
               /\ history = c.pre.history
               /\ currentActionIndex = c.pre.index
               /\ actionCounter = c.pre.counter
               /\ digests = c.pre.digests

\* hydrate was served a digest with an unregistered operation while the
\* container had history, applied actions and a local digest of that id
HydrateIssueLeavesStoreWitness ==
    \E s \in Slots :
        /\ Done(s) /\ calls[s].op = "hydrate" /\ calls[s].ret.kind = "Issue"
        /\ calls[s].ret.message = "Exec function is not registered."
        /\ Len(history) > 0 /\ actionCounter > 0
        /\ \E k \in 1..Len(digests) : digests[k].id = calls[s].digestId

\* C13: invoke(op, state) resolves and never rejects: when the executable
\* resolves {content, transform} and transform(state) does not throw, to a
\* success Result with that content, prevState = state and nextState =
\* transform(state); when the executable or the transform throws or rejects,
\* to an Issue whose action is op and whose errors hold the thrown error, a
\* thrown x that is no Error being carried as Error(String(x)).
InvokeAlwaysResolves ==
    \A k \in 1..Len(log) :
        LET e == log[k]
            effect == Execute(e.name, e.state)
        IN e.op = "invoke"
             => /\ e.out.kind \in {"Result", "Issue"}
                /\ (effect.kind = "effect" /\ ~TransformThrows(effect.transform))
                     => /\ e.out.kind = "Result"
                        /\ e.out.content = <<effect.content>>
                        /\ e.out.prevState = e.state
                        /\ e.out.nextState = Transform(effect.transform, e.state)
                /\ (effect.kind # "effect" \/ TransformThrows(effect.transform))
                     => /\ e.out.kind = "Issue"
                        /\ e.out.action = e.name
                        /\ effect.kind # "effect"
                             => e.out.errors =
                                  <<IF effect.type = "Error" THEN effect.message
                                    ELSE StringOf(effect)>>

\* The Action object a serialized record was made from
Original(json) == CHOOSE a \in {actions[i] : i \in 1..Len(actions)} : a.id = json.id

\* C14: Action.fromJSON(op.toJSON()) is defined for every operation op and
\* yields an operation with the name, params and correlationId of op and
\* another id; if the id of op is in the registry, the new operation executes
\* as the executable of op does, for every state; if it is not, every execute
\* of the new operation rejects.
RoundTripPreserves ==
    \A k \in 1..Len(log) :
        LET e == log[k] IN
        /\ e.op = "toJSON" => e.out = "json"
        /\ e.op = "fromJSON"
             => LET new == actions[e.made]
                    op == Original(e.json)
                IN /\ new.name = op.name
                   /\ new.params = op.params
                   /\ new.correlationId = op.correlationId
                   /\ new.id # op.id
                   /\ \A s \in InvokeStates :
                        IF LedgerHas(e.pre, op.id)
                        THEN ExecuteOutcome(new, s) = ExecuteOutcome(op, s)
                        ELSE ExecuteOutcome(new, s).kind = "reject"

\* C15: toJSON can be called any number of times on an operation: every
\* call returns the record {id, correlationId, name, params, timestamp}
\* without throwing, and after every call the registry holds the executable
\* of the operation under its id.
ToJSONAlwaysRegisters ==
    \A k \in 1..Len(log) :
        LET e == log[k] IN
        e.op = "toJSON"
            => /\ e.out = "json"
               /\ e.json = ActionRecord(actions[e.made])
               /\ LedgerHas(e.post, actions[e.made].id)
               /\ e.post[actions[e.made].id] = actions[e.made].exec

\* C16: Ledger.set(k, f) on a registered key throws "already registered" and
\* leaves the registry as it is, k still mapped to the first executable;
\* Ledger.get(k) on an absent key throws "not registered"; Ledger.has(k) is
\* true exactly when k is registered and changes nothing.
LedgerContract ==
    /\ Len(log) > 0 => log[Len(log)].post = registry
    /\ \A k \in 1..Len(log) :
        LET e == log[k] IN
        /\ (e.op = "set" /\ LedgerHas(e.pre, e.key))
              => /\ e.out = "throw" /\ e.message = "already registered"
                 /\ e.post = e.pre
        /\ (e.op = "get" /\ ~LedgerHas(e.pre, e.key))
              => e.out = "throw" /\ e.message = "not registered"
        /\ e.op = "has"
              => /\ e.out = (IF e.key \in DOMAIN e.pre THEN "true" ELSE "false")
                 /\ e.post = e.pre

\* Ledger.set was refused for a key that Action.create had registered with
\* another executable, and Ledger.has of that key was then true
LedgerContractWitness ==
    \E j \in 1..Len(log), k \in 1..Len(log) :
        /\ j < k
        /\ log[j].op = "set" /\ log[j].out = "throw"
        /\ log[j].pre[log[j].key] # log[j].exec
        /\ log[k].op = "has" /\ log[k].key = log[j].key /\ log[k].out = "true"
        /\ registry[log[j].key] # log[j].exec

\* Only Action.create has written names into the registry so far
OnlyCreates == \A k \in 1..Len(log) : log[k].op \notin {"set", "clear"}

\* C17: after any sequence of Action.create calls the registry maps each name
\* to the executable of the first create with that name; a later create with
\* the same name and another executable neither throws nor overwrites it.
FirstWriterWins ==
    OnlyCreates
        => \A k \in 1..Len(log) :
              log[k].op = "create"
                 => LET first == CHOOSE j \in 1..k :
                                    /\ log[j].op = "create" /\ log[j].key = log[k].key
                                    /\ \A i \in 1..(j - 1) :
                                          ~(log[i].op = "create" /\ log[i].key = log[k].key)
                    IN /\ log[k].out = "action"
                       /\ LedgerHas(registry, log[k].key)
                       /\ registry[log[k].key] = log[first].exec

\* a name was created twice with different executables and once more for
\* another name
FirstWriterWinsWitness ==
    /\ OnlyCreates
    /\ \E j \in 1..Len(log), k \in 1..Len(log) :
          /\ j < k /\ log[j].op = "create" /\ log[k].op = "create"
          /\ log[j].key = log[k].key /\ log[j].exec # log[k].exec
    /\ Cardinality(DOMAIN registry) > 1

\* C18: every Result whose success flag is true has an empty errors list,
\* whether it comes from Result.success, map, bind, recover, orElse or from
\* Result.fromJSON of a record it accepts.
SuccessHasNoErrors ==
    \A k \in 1..Len(log) :
        (log[k].out.kind = "Result" /\ log[k].out.success)
            => log[k].out.errors = << >>

\* C19: constructing an Issue from a Result with success = true throws;
\* Issue.fromAction yields an Issue whose result has success = false and
\* holds the given error; Issue.fromJSON of a record whose result has
\* success = true throws instead of returning an Issue.
IssueNeverWrapsSuccess ==
    \A k \in 1..Len(log) :
        LET e == log[k] IN
        /\ e.out.kind = "Issue" => ~e.out.success
        /\ (e.op = "new Issue" /\ e.from.success) => e.out.kind = "Thrown"
        /\ e.op = "fromAction"
              => /\ e.out.kind = "Issue" /\ ~e.out.success
                 /\ e.out.errors = <<e.f>>
        /\ (e.op = "Issue.fromJSON" /\ e.from.success) => e.out.kind = "Thrown"

\* Issue.fromAction has made an Issue, and Issue.fromJSON, given a
\* well-formed record whose result is a success, threw the error of the
\* constructor
IssueNeverWrapsSuccessWitness ==
    /\ Len(log) = 2
    /\ log[1].op = "fromAction" /\ log[1].out.kind = "Issue"
    /\ log[2].op = "Issue.fromJSON" /\ log[2].f = "wellFormed"
    /\ log[2].from.success /\ log[2].from.errors = << >>
    /\ log[2].from.content = <<3>>
    /\ log[2].out.message = "Issue cannot be created from a successful result."

\* C20: subscriber.alert(operation, newState) calls every registered
\* observer with (operation, newState) (one registered by watch when its
\* filter holds), does not throw, and returns false when some observer threw
\* and true otherwise; observers registered after one that throws are still
\* called
AlertCallsAll ==
    \A k \in 1..Len(log) :
        log[k].op = "alert" =>
            LET e == log[k] IN
            /\ e.called = { [index |-> i, action |-> e.action, newState |-> e.newState] :
                              i \in { j \in 1..Len(e.subs) : Reaches(e.subs[j]) } }
            /\ ~e.propagated
            /\ e.out = ~(\E i \in 1..Len(e.subs) : Throws(e.subs[i]))

\* C25: after any sequence of Hooks.register, unregister, clear and clearAll
\* calls, Hooks.has(e) is true exactly when some function is registered for
\* e, and no function is registered twice for one event: a register of a
\* function already registered returned false and left the map unchanged,
\* so that Hooks.invoke calls each function once
NoDuplicateHooks ==
    /\ \A e \in TestEvents :
          /\ HooksHas(hooks, e) <=>
                 \E k \in 1..Len(log) :
                     /\ log[k].op = "register" /\ log[k].e = e /\ log[k].out
                     /\ \A j \in (k + 1)..Len(log) :
                           ~(\/ log[j].op = "clearAll"
                             \/ log[j].op = "clear" /\ log[j].e = e
                             \/ /\ log[j].op = "unregister" /\ log[j].e = e
                                /\ log[j].f = log[k].f /\ log[j].out)
          /\ HooksHas(hooks, e) =>
                 /\ Len(hooks[e]) > 0
                 /\ \A i, j \in 1..Len(hooks[e]) : hooks[e][i] = hooks[e][j] => i = j
    /\ \A k \in 1..Len(log) :
          log[k].op = "register" =>
              LET was == /\ HooksHas(log[k].pre, log[k].e)
                         /\ IndexOf(log[k].pre[log[k].e], log[k].f) > 0
                  post == IF k < Len(log) THEN log[k + 1].pre ELSE hooks
              IN /\ log[k].out = ~was
                 /\ was => post = log[k].pre
    /\ \A i, j \in 1..Len(invocation.called) :
          invocation.called[i].f = invocation.called[j].f => i = j

\* A register of a function already registered has returned false,
\* Hooks.invoke has called that function once, and an unregister has then
\* removed it and, with it, the event
NoDuplicateHooksWitness ==
    /\ Len(log) = 3
    /\ log[1].op = "register" /\ log[1].out
    /\ log[2].op = "register" /\ ~log[2].out
    /\ log[3].op = "unregister" /\ log[3].out
    /\ ~HooksHas(hooks, log[3].e)
    /\ invocation.pc = "done" /\ Len(invocation.called) = 1

\* C26: Hooks.invoke(e, ...args) calls every function registered for e, in
\* the order of registration, each with args, also when an earlier one throws,
\* and its promise settles only after every one of them has completed
InvokeAwaitsAll ==
    invocation.pc = "done" =>
        /\ invocation.called =
               [i \in 1..Len(invocation.registered) |->
                  [f |-> invocation.registered[i], args |-> invocation.args]]
        /\ invocation.pendingAtSettle = {}

\* The apply calls of a development Store whose executable or transform
\* writes to the state it is given
WritesToHanded(k) ==
    /\ log[k].op = "apply" /\ log[k].mode = "development"
    /\ log[k].name \in {"MUTATE_EXEC", "MUTATE_TRANSFORM"}

ApplyNeverRejects ==
    \A k \in 1..Len(log) :
        log[k].op = "apply" =>
            /\ log[k].settled = "resolved"
            /\ log[k].out.kind \in {"Result", "Issue"}

\* C23: the lightweight Store.hydrate(serialized) resolves to true exactly
\* when the store state has been replaced by the parsed state, and whenever it
\* resolves to false the store state is the state before the call
HydrateFalseLeavesState ==
    \A k \in 1..Len(log) :
        log[k].op = "hydrate" /\ log[k].settled = "resolved" =>
            /\ log[k].flag =>
                  JSONParse(log[k].text).ok /\ log[k].post = JSONParse(log[k].text).value
            /\ ~log[k].flag => log[k].post = log[k].pre

\* x lies in the closed interval [a, b]
Within(x, a, b) ==
    CASE x.kind = "int" -> a <= x.floor /\ x.floor <= b
      [] x.kind = "frac" -> a <= x.floor /\ x.floor < b
      [] x.kind = "nan" -> FALSE

\* C24: Store.create throws exactly when maxHistorySize is outside
\* [1, 100000] or maxHistoryTime is outside [3600000, 604800000]; for values
\* in range, the endpoints included, it returns a Store with empty history,
\* currentActionIndex = -1 and actionCounter = 0
CreateValidatesBounds ==
    \A k \in 1..Len(log) :
        log[k].op = "Store.create" =>
            /\ log[k].out.threw <=>
                   \/ ~Within(log[k].size, 1, SizeLimit)
                   \/ ~Within(log[k].time, OneHour, SevenDays)
            /\ ~log[k].out.threw =>
                   /\ log[k].out.history = << >>
                   /\ log[k].out.currentActionIndex = -1
                   /\ log[k].out.actionCounter = 0

\* The digest made by the call of slot s, which is past makeDigest
MadeBy(s) == created[Len(created)]

\* The operation whose success made the call of slot s digest
Trigger(s) == calls[s].action

Stale(s) == calls[s].at - calls[s].action.ts > maxHistoryTime

DigestsNeverMutated ==
    \A k \in 1..Len(digests) :
        /\ digests[k].state = created[digests[k].id].state
        /\ digests[k].history = created[digests[k].id].history

\* C30: a successful reset decrements currentActionIndex by exactly one, a
\* successful retry increments it by exactly one, and every add, rerun, reset
\* or retry that resolves to an Issue leaves currentActionIndex unchanged
PointerSteps ==
    \A s \in Slots :
        LET c == calls[s] IN
        (Done(s) /\ c.op \in Mutating)
          => /\ (c.op = "reset" /\ c.ret.kind = "Result")
                   => currentActionIndex = c.pre.index - 1
             /\ (c.op = "retry" /\ c.ret.kind = "Result")
                   => currentActionIndex = c.pre.index + 1
             /\ c.ret.kind = "Issue" => currentActionIndex = c.pre.index

\* C29: in a run of add, rerun, retry and hydrate calls, whenever
\* currentActionIndex >= 0 the entry history[currentActionIndex] is the
\* operation that succeeded most recently (the last restored entry after a
\* hydrate): after a call that succeeded it is the operation of that call,
\* and after a call that failed it is the entry the pointer marked before,
\* also when entries were evicted by size or by age
PointerMarksLastSuccess ==
    \A s \in Slots :
        LET c == calls[s]
            marked == HistoryAt(history, currentActionIndex)
        IN (Done(s) /\ currentActionIndex >= 0)
             => IF c.ret.kind = "Result"
                THEN CASE c.op = "add" -> marked = c.action
                       [] c.op = "rerun" -> marked = HistoryAt(c.pre.history, c.index)
                       [] c.op = "retry" -> marked = c.action
                       [] OTHER -> currentActionIndex = Len(history) - 1
                ELSE /\ c.pre.index >= 0
                     /\ marked = HistoryAt(c.pre.history, c.pre.index)

\* The call of slot s is an add that resolved to an Issue and was submitted
\* with the pointer on the last entry of a non-empty history, where a
\* successful add leaves it
FailedAfterSuccess(s) ==
    /\ Done(s)
    /\ calls[s].op = "add"
    /\ calls[s].ret.kind = "Issue"
    /\ calls[s].pre.index >= 0
    /\ calls[s].pre.index = Len(calls[s].pre.history) - 1

\* C31: an operation F whose add fails after a successful add stays in
\* history directly after the pointed-at entry, and the next retry invokes
\* exactly F, the entry at currentActionIndex + 1, for every maxHistorySize
\* >= 1, also when the history was full
FailedAddIsRetried ==
    [][\A s \in Slots :
          (FailedAfterSuccess(s) /\ calls'[s].op = "retry")
            => /\ HistoryAt(history, currentActionIndex + 1) = calls[s].action
               /\ calls'[s].action = calls[s].action
               /\ calls'[s].trace = <<Invoked(calls[s].action, calls'[s].base)>>]_vars

\* The step submits an add in slot s: the operation is pushed and handed to
\* its executable
AddSubmitted(s) ==
    /\ nOps' = nOps + 1
    /\ calls'[s].op = "add"
    /\ calls'[s].trace # << >>

\* C32: middleware functions are invoked before an action is applied: for
\* every add, each registered middleware whose filter (if any) accepts the
\* action has been invoked by the add with that action when the executable
\* of the action is invoked
MiddlewareBeforeExec ==
    [][\A s \in Slots :
          AddSubmitted(s)
            => \A k \in 1..Len(middlewares) :
                  Reaches(middlewares[k])
                    => \E j \in (Len(log) + 1)..Len(log') :
                          /\ log'[j].op = "middleware.apply"
                          /\ [index |-> k, action |-> calls'[s].action]
                                \in log'[j].called]_vars

\* The call of lane k was submitted when no call was in flight, with the
\* state the container had, and it has returned a Result
AwaitedSuccess(k, op) ==
    /\ calls[k].op = op
    /\ calls[k].alone
    /\ calls[k].base = calls[k].pre.state
    /\ calls[k].pc = "done"
    /\ calls[k].ret.kind = "Result"

\* C33: reset resets the state to a previous point in the history: after a
\* successful add of an operation from container state S0 followed by a
\* successful reset called with the current state, the state equals S0
ResetRestoresState ==
    \A k \in Lanes :
        (/\ k + 1 \in Lanes
         /\ nOps = k + 1
         /\ AwaitedSuccess(k, "add")
         /\ AwaitedSuccess(k + 1, "reset"))
          => state = calls[k].pre.state

\* Every call submitted so far is an add that has returned a success Result
AllAddsSucceeded ==
    /\ nOps >= 1
    /\ \A k \in 1..nOps :
          /\ calls[k].op = "add"
          /\ calls[k].pc = "done"
          /\ calls[k].ret.kind = "Result"
          /\ calls[k].ret.success

\* The digests and the counter that nOps awaited adds leave behind
CountsAsSequential ==
    /\ Len(created) = nOps \div digestInterval
    /\ actionCounter = nOps % digestInterval

Quiet == \A s \in Slots : calls[s].pc \in {"idle", "done"}

\* C37: pointer range invariant: after any sequence of add, rerun, reset,
\* retry and hydrate calls, -1 <= currentActionIndex <= history.length - 1,
\* also after entries were evicted by the size bound or the age bound
PointerInRange ==
    Quiet => /\ -1 <= currentActionIndex
             /\ currentActionIndex <= Len(history) - 1

\* C38: counter range invariant: between operations 0 <= actionCounter <
\* digestInterval, after any sequence of add, rerun, reset, retry and hydrate
\* calls, also when a digest persist callback rejected
CounterInRange ==
    Quiet => /\ 0 <= actionCounter
             /\ actionCounter < digestInterval

Ids(ds) == [k \in 1..Len(ds) |-> ds[k].id]

\* The call of slot s has created a digest
MadeDigest(s) == calls[s].pending # NoDigest

Positions(events, e) == { i \in 1..Len(events) : events[i] = e }

\* An error occurs during the hydrate of the entry: the text cannot be
\* parsed, or a function registered for before-hydrate, state-validation or
\* after-hydrate throws
HydrateErred(entry) ==
    \/ ~JSONParse(entry.text).ok
    \/ \E e \in {"before-hydrate", "state-validation", "after-hydrate"} :
          /\ Awaited(entry.hooks, e) = "rejected"
          /\ Positions(entry.events, e) # {}

\* C34: whenever an error occurs during the lightweight Store.hydrate (the
\* serialized state cannot be parsed, or a before-hydrate, state-validation
\* or after-hydrate hook throws), hydrate-error is invoked exactly once, and
\* after-hydration-cleanup exactly once after it, before hydrate settles
HydrateErrorHookInvoked ==
    \A j \in 1..Len(log) :
        (log[j].op = "hydrate" /\ HydrateErred(log[j]))
          => /\ Cardinality(Positions(log[j].events, "hydrate-error")) = 1
             /\ Cardinality(Positions(log[j].events, "after-hydration-cleanup")) = 1
             /\ \A i \in Positions(log[j].events, "hydrate-error") :
                   \A k \in Positions(log[j].events, "after-hydration-cleanup") : i < k

\* C35: whenever the lightweight Store.apply resolves to an Issue, the state
\* of the Store equals its value before the call, in development, production
\* and test mode, also when the failure comes from a lifecycle hook and not
\* from the executable
ApplyIssueLeavesState ==
    \A j \in 1..Len(log) :
        (/\ log[j].op = "apply"
         /\ log[j].settled = "resolved"
         /\ log[j].out.kind = "Issue")
          => log[j].post = log[j].pre

====
